---- MODULE Spec2Model ----
(***************************************************************************)
(* Duplicate-bug detection of the Bug Sense browser extension.             *)
(*                                                                         *)
(* Two builds of the content script exist in the repository:               *)
(*   "dom": extension/content/duplicateBugDetector.ts scans the rendered   *)
(*          grid (role=gridcell), styles the cells and reports to the host *)
(*          with chrome.runtime.sendMessage;                               *)
(*   "api": frontend/extension/content/duplicateBugDetector.ts reads the   *)
(*          rows with the Sheets API, filters by the persisted ignore list *)
(*          and formats the rows remotely.                                 *)
(* Both call findDuplicates of utils/transformer.ts.  A page runs one of   *)
(* them; the variable `variant` says which.                                *)
(*                                                                         *)
(* A handler is cut at its awaits: each action is one synchronous segment. *)
(* A row of the grid is carried as the text it contributes to the          *)
(* embedding; the embedding model (an external collaborator) is a fixed    *)
(* table from texts to small integer vectors.  A similarity score          *)
(* dot / (sqrt(na) * sqrt(nb)) is kept exactly, as [num, den2] standing    *)
(* for num / sqrt(den2); thresholds are in hundredths (0.86 is 86).        *)
(***************************************************************************)
EXTENDS Integers, Sequences, FiniteSets, TLC

VARIABLES
  variant,        \* "dom" | "api" | "fn": the build loaded in the page
  pc,             \* position of the running pass ("idle" when none)
  msgs,           \* chrome.runtime messages sent by the current/last pass
  embedCalls,     \* embedTexts calls awaited by the current/last pass
  \* ---- dom build
  isSheet,        \* location.href includes docs.google.com/spreadsheets
  grid,           \* aria-rowindex -> row text, or Absent
  stray,          \* a gridcell without aria-rowindex is in the document
  fallbackText,   \* lines of div.docs-sheet-view / body innerText
  elapsed,        \* Date.now() - start of the poll loop
  items,          \* itemsForEmbedding / lines of the running pass
  overlay,        \* #bug-sense-duplicates-overlay
  hl,             \* row indices whose cells carry the marker style
  lastPairsCount,
  tainted,        \* the grid changed while the pass was running
  last,           \* what the previous undisturbed pass left behind
  cleanRuns,      \* consecutive undisturbed passes on the same grid (max 2)
  outcome,        \* how the last pass ended ("none" before the first)
  stages,         \* the stages the current/last pass entered, in order
  overlays,       \* number of summary overlay elements under document.body
  styled,         \* rows whose cells the current/last pass gave the marker style
  visible,        \* document.visibilityState === "visible"
  inFrame,        \* the gridcells are in a same-origin sub-document
  observer,       \* let observer: the MutationObserver on body is installed
  timers,         \* pending setTimeout(() => analyzeSheetAndHighlight(), 250)
  triggers,       \* RUN_DUPLICATE_SCAN messages received
  reruns,         \* passes the live watcher has started, counted modulo 2
  other,          \* locals of a second pass that is waiting at an await
  \* ---- api build
  sheet,          \* values of bug_report!A1:Z1000, header first
  storeAccess,    \* localStorage: "ok" | "denied" (get/set throw) | "full" (set throws)
  store,          \* value under bugsense_duplicate_ignore_list
  found,          \* pairs findDuplicates returned to the pass
  filtered,       \* filteredPairs of the last pass that got to filter
  filteredFresh,  \* that pass ran after the last completed dismissal
  remoteHL,       \* zero-based rows with the red background in the sheet
  hpc,            \* position of markNotDup.onclick ("none" when not running)
  hq,             \* pairs the handler still has to add
  dismissed,      \* pairs whose dismissal ran to completion
  fmt,            \* how highlightDuplicates ended in this pass, and what it posted
  \* ---- findDuplicates on its own
  fdItems, fdThreshold, fdOut,
  \* ---- buildRowString on its own
  rsHeader,       \* cells of the header row
  rsCells,        \* cells of one data row
  rsOut,          \* the feature string returned
  \* ---- utils/cache.ts on its own (with store and storeAccess)
  ckOut,          \* the last call of the cache module and how it ended
  \* ---- instant replay: utils/replayBuffer.ts ("buffer") and the replay
  \*      listener of content/consoleListener.ts ("listener")
  now,            \* Date.now()
  ticks,          \* how often the clock has advanced
  events,         \* replayBuffer.ts: let events
  actions,        \* replay listener: let actions
  logged,         \* every event handed to the loaded script, in order
  replay,         \* what the last getRecentActions / GET_REPLAY_LOGS returned
  listening,      \* the click and keypress listeners are attached
  loading,        \* the storage read of init() whose callback has not run yet
  recentActions,  \* chrome.storage.local: recentActions
  lastScreenshotTime,
  sent,           \* Date.now() of every CAPTURE_FRAME sent, in order
  inflight,       \* CAPTURE_FRAME requests without a response yet
  reads,          \* storage reads of recentScreenshots whose callback has not run yet
  recentScreenshots, \* chrome.storage.local: recentScreenshots
  written,        \* screenshots whose storage write completed, in order
  \* ---- two addIgnoredPair calls in flight ("race")
  calls,          \* per call: where it is, its key, the list it read
  \* ---- background worker, recording ("recording")
  mediaRecorder,  \* let mediaRecorder (0 for null, else the recorder)
  recState,       \* MediaRecorder.state of every recorder created
  activeStream,   \* let activeStream (0 for null)
  recordedChunks, \* let recordedChunks: the recorder each chunk came from
  liveStreams,    \* streams whose tracks have not been stopped
  made,           \* streams tabCapture has returned so far
  pendingStarts,  \* START_RECORDING handlers awaiting tryTabCapture()
  stopping,       \* recorders whose stop event has not been dispatched yet
  isRecording,    \* chrome.storage.local: isRecording
  recordedVideo,  \* chunks of the blob saved under recordedVideo
  recResponse,    \* the last sendResponse of START_ / STOP_RECORDING
  \* ---- background worker, selective capture ("selective")
  captureInProgress,
  capPc,          \* per HIDE_OVERLAY_AND_CAPTURE received: where its handler is
  capReqs,        \* HIDE_OVERLAY_AND_CAPTURE messages received
  capSent,        \* TRIGGER_BUG_CREATION_FROM_CONTEXT messages sent
  \* ---- background worker, full screenshots ("download")
  FULL_IMAGE_CACHE, \* keys of the Map
  shots,          \* per key: how its TAKE_SCREENSHOT stands
  cleanups,       \* keys whose cleanup timer has not fired yet
  expired,        \* keys whose cleanup timer has fired
  served,         \* keys a DOWNLOAD_FULL_SCREENSHOT answered with success
  dl              \* the DOWNLOAD_FULL_SCREENSHOT requests received, in order

watchVars == <<styled, visible, inFrame, observer, timers, triggers, reruns,
               other>>
domVars == <<grid, stray, fallbackText, elapsed, hl, lastPairsCount, tainted,
             last, cleanRuns, stages, watchVars>>
apiVars == <<sheet, storeAccess, store, found, filtered, filteredFresh, remoteHL,
             hpc, hq, dismissed, fmt>>
fdVars == <<fdItems, fdThreshold, fdOut>>
rsVars == <<rsHeader, rsCells, rsOut>>
rpVars == <<now, ticks, events, actions, logged, replay, listening, loading,
            recentActions, lastScreenshotTime, sent, inflight, reads,
            recentScreenshots, written>>
raceVars == <<calls>>
recVars == <<mediaRecorder, recState, activeStream, recordedChunks, liveStreams,
             made, pendingStarts, stopping, isRecording, recordedVideo,
             recResponse>>
selVars == <<captureInProgress, capPc, capReqs, capSent>>
dlVars == <<FULL_IMAGE_CACHE, shots, cleanups, expired, served, dl>>
sideVars == <<rpVars, raceVars, recVars, selVars, dlVars>>
pureVars == <<fdVars, rsVars, ckOut, sideVars>>
vars == <<variant, pc, msgs, embedCalls, isSheet, items, overlay, overlays, outcome,
          domVars, apiVars, pureVars>>

(* ------------------------------ bounds -------------------------------- *)
MaxRow == 4          \* highest aria-rowindex of the grid
MaxSheetRows == 4    \* rows the Sheets API returns, header included
MaxLines == 2        \* lines of fallback text
MaxItems == 3        \* items handed to findDuplicates on its own
MaxCols == 4         \* cells of a row handed to buildRowString on its own
MaxId == 10          \* highest id handed to the cache module on its own
MaxKeys == 3         \* keys the ignore list holds at most, on its own
MaxTicks == 2        \* advances of the clock
MaxEvents == 2       \* clicks, keypresses and logAction calls
MaxTimers == 2       \* re-runs the live watcher has scheduled and not yet started
MaxTriggers == 1     \* RUN_DUPLICATE_SCAN messages
MaxOverlays == 2     \* overlay elements under body when the script is injected again
MaxRecorders == 2    \* streams tabCapture returns, one recorder each
MaxStarts == 2       \* START_RECORDING handlers awaiting their stream
MaxChunks == 2       \* chunks in recordedChunks
MaxRequests == 3     \* HIDE_OVERLAY_AND_CAPTURE messages
MaxShots == 2        \* screenshots put into FULL_IMAGE_CACHE
MaxDownloads == 2    \* DOWNLOAD_FULL_SCREENSHOT messages

(* ------------------------- program constants -------------------------- *)
DUP_THRESHOLD == 86
POLL_INTERVAL_MS == 500
POLL_TIMEOUT_MS == 10000
DEFAULT_THRESHOLD == 85
MAX_BUFFER_TIME == 30000            \* utils/replayBuffer.ts
LISTENER_MAX_BUFFER_TIME == 60000   \* MAX_BUFFER_TIME of the replay listener
SCREENSHOT_THROTTLE_MS == 2000
MAX_SCREENSHOTS == 30
StartTime == 100000                 \* Date.now() when the script is loaded

Absent == "<absent>"
Contents == {"a", "b", "c"}
WatchContents == {"a", "b"}
LineTexts == {"a", "c"}
FDTexts == {"a", "b", "c", "d", "e", "z"}
Thresholds == {DEFAULT_THRESHOLD, DUP_THRESHOLD, 96}

Min(a, b) == IF a < b THEN a ELSE b

SeqsUpTo(S, n) == UNION {[1..k -> S] : k \in 0..n}

(* ----------------------- utils/transformer.ts ------------------------- *)

\* extractor(texts, {pooling, normalize}): one vector per text.
Embedding(text) ==
  CASE text = "a" -> <<1, 0>>
    [] text = "b" -> <<3, 1>>
    [] text = "c" -> <<1, 1>>
    [] text = "d" -> <<3, 4>>
    [] text = "e" -> <<4, 3>>
    [] OTHER -> <<0, 0>>

embedTexts(texts) == [k \in 1..Len(texts) |-> Embedding(texts[k])]

RECURSIVE SumProd(_, _, _)
SumProd(a, b, k) == IF k = 0 THEN 0 ELSE a[k] * b[k] + SumProd(a, b, k - 1)

ZeroScore == [num |-> 0, den2 |-> 1]

cosineSimilarity(a, b) ==
  IF Len(a) # Len(b) THEN ZeroScore
  ELSE LET dot == SumProd(a, b, Len(a))
           na == SumProd(a, a, Len(a))
           nb == SumProd(b, b, Len(b))
       IN IF na = 0 \/ nb = 0 THEN ZeroScore
          ELSE [num |-> dot, den2 |-> na * nb]

\* score >= threshold, for score = num / sqrt(den2) and threshold = thr / 100
ScoreAtLeast(score, thr) ==
  LET l == 100 * score.num
      r2 == thr * thr * score.den2
  IN IF thr >= 0 THEN l >= 0 /\ l * l >= r2
     ELSE l >= 0 \/ l * l <= r2

\* the same loop with the inner index starting at i instead of i + 1
RECURSIVE PairLoopFromI(_, _, _, _, _)
PairLoopFromI(emb, thr, i, j, acc) ==
  IF i >= Len(emb) THEN acc
  ELSE IF j >= Len(emb) THEN PairLoopFromI(emb, thr, i + 1, i + 1, acc)
  ELSE LET score == cosineSimilarity(emb[i + 1], emb[j + 1])
       IN PairLoopFromI(emb, thr, i, j + 1,
            IF ScoreAtLeast(score, thr)
            THEN Append(acc, [i |-> i, j |-> j, score |-> score]) ELSE acc)

ComparePairsFromI(emb, thr) == PairLoopFromI(emb, thr, 0, 0, <<>>)

\* for (i = 0; ...) for (j = i + 1; ...) if (score >= threshold) pairs.push
RECURSIVE PairLoop(_, _, _, _, _)
PairLoop(emb, thr, i, j, acc) ==
  IF i >= Len(emb) THEN acc
  ELSE IF j >= Len(emb) THEN PairLoop(emb, thr, i + 1, i + 2, acc)
  ELSE LET score == cosineSimilarity(emb[i + 1], emb[j + 1])
       IN PairLoop(emb, thr, i, j + 1,
            IF ScoreAtLeast(score, thr)
            THEN Append(acc, [i |-> i, j |-> j, score |-> score]) ELSE acc)

ComparePairs(emb, thr) == PairLoop(emb, thr, 0, 1, <<>>)

\* items.map(it => (it.text || "").trim() ...)
TextsOf(its) == [k \in 1..Len(its) |-> its[k].text]

\* embedTexts awaited once for every pair of items
EmbedCallsPerPair(its) == (Len(its) * (Len(its) - 1)) \div 2

\* the embedTexts calls one findDuplicates(its) awaits: none for no item, else
\* one over all the texts
EmbedCalls(its) == IF Len(its) = 0 THEN 0 ELSE 1

\* findDuplicates once embedTexts has resolved
findDuplicates(its, thr) ==
  IF Len(its) = 0 THEN [embeddings |-> <<>>, pairs |-> <<>>]
  ELSE LET emb == embedTexts(TextsOf(its))
       IN [embeddings |-> emb, pairs |-> ComparePairs(emb, thr)]


(* ============ dom build: extension/content/duplicateBugDetector.ts ====== *)

FALLBACK_MAX_LINES == 200

NoOverlay == [present |-> FALSE, pairs |-> <<>>, itemsCount |-> 0]
MkOverlay(pairs, n) == [present |-> TRUE, pairs |-> pairs, itemsCount |-> n]
NoResult == [present |-> FALSE, overlay |-> NoOverlay, hl |-> {}, msgs |-> <<>>]

Message(action, count, rows, error) ==
  [action |-> action, count |-> count, rows |-> rows, error |-> error]
NoDuplicatesMsg == Message("NO_DUPLICATES", 0, {}, "")
DuplicatesFoundMsg(count, rows) == Message("DUPLICATES_FOUND", count, rows, "")
DuplicateErrorMsg(error) == Message("DUPLICATE_ERROR", 0, {}, error)
NoCellsError == "No grid cells and no fallback text."
EmbedError == "Error: Transformer extractor not initialized"

Range(f) == {f[k] : k \in DOMAIN f}

RECURSIVE SortAsc(_)
SortAsc(S) ==
  IF S = {} THEN <<>>
  ELSE LET m == CHOOSE x \in S : \A y \in S : x <= y
       IN <<m>> \o SortAsc(S \ {m})

\* the locals and DOM state one pass reads and writes
\* (mutated: this segment added or removed a node under body)
Cur == [pc |-> pc, msgs |-> msgs, embedCalls |-> embedCalls, elapsed |-> elapsed,
        items |-> items, overlay |-> overlay, hl |-> hl,
        lastPairsCount |-> lastPairsCount, outcome |-> outcome,
        stages |-> stages, overlays |-> overlays, styled |-> styled,
        mutated |-> FALSE]

Set(s) ==
  /\ pc' = s.pc
  /\ msgs' = s.msgs
  /\ embedCalls' = s.embedCalls
  /\ elapsed' = s.elapsed
  /\ items' = s.items
  /\ overlay' = s.overlay
  /\ hl' = s.hl
  /\ lastPairsCount' = s.lastPairsCount
  /\ outcome' = s.outcome
  /\ stages' = s.stages
  /\ overlays' = s.overlays
  /\ styled' = s.styled

\* the pass is in stage st from here on (history)
Enter(s, st) ==
  IF Len(s.stages) > 0 /\ s.stages[Len(s.stages)] = st THEN s
  ELSE [s EXCEPT !.stages = Append(@, st)]

\* every styled gridcell carries the marker colour "255, 230, 230"
\* getElementById finds one overlay element and removes it
clearPreviousHighlights(s) ==
  [s EXCEPT !.overlay = NoOverlay, !.hl = {},
            !.overlays = IF @ > 0 THEN @ - 1 ELSE 0,
            !.mutated = @ \/ s.overlays > 0]

\* the overlay shows "Row i+2 <-> Row j+2"; Jump scrolls to row i+2
DisplayedRows(p) == <<p.i + 2, p.j + 2>>
JumpTarget(p) == p.i + 2

renderOverlaySummary(s, pairs, n) ==
  [clearPreviousHighlights(Enter(s, "rendering"))
     EXCEPT !.overlay = MkOverlay(pairs, n), !.overlays = @ + 1, !.mutated = TRUE]

sendMessage(s, m) == [s EXCEPT !.msgs = Append(@, m)]

Return(s, how) == [s EXCEPT !.pc = "idle", !.outcome = how]

\* document.querySelectorAll('[role="gridcell"]') has elements
findGridCellsAcrossFrames == stray \/ \E r \in 1..MaxRow : grid[r] # Absent

\* cells without aria-rowindex are left out of the map
buildRowsFromCells == {r \in 1..MaxRow : grid[r] # Absent}

\* the items with the first sorted row kept among them
ItemsOfWithHeader(sorted) ==
  [k \in 1..Len(sorted) |-> [id |-> sorted[k], text |-> grid[sorted[k]]]]

\* sortedRowIndices.slice(1) mapped to {id: rowIndex, text}
ItemsOf(sorted) ==
  [k \in 1..(Len(sorted) - 1) |-> [id |-> sorted[k + 1], text |-> grid[sorted[k + 1]]]]

\* the lines all given the id of the first
LinesOfOneId(text) ==
  [k \in 1..Min(Len(text), FALLBACK_MAX_LINES) |-> [id |-> 1, text |-> text[k]]]

\* fallbackText.split(newline).slice(0, 200).map((l, i) => ({id: i + 1, text: l}))
LinesOf(text) ==
  [k \in 1..Min(Len(text), FALLBACK_MAX_LINES) |-> [id |-> k, text |-> text[k]]]

\* groups / duplicateRows: the ids of the rows of every pair
DuplicateRows(its, pairs) ==
  UNION {{its[p.i + 1].id, its[p.j + 1].id} : p \in Range(pairs)}

\* document.querySelectorAll(`[role="gridcell"][aria-rowindex="${rowIndex}"]`)
\* styled: the cells of the top document
ApplyHighlights(h, rows) ==
  IF inFrame THEN h ELSE h \cup {r \in rows : r \in 1..MaxRow /\ grid[r] # Absent}

\* the same segment drawing an empty summary before it awaits findDuplicates
RunFromRowsMapRenderFirst(s0) ==
  LET sorted == SortAsc(buildRowsFromCells)
      s == Enter(s0, "extracting")
  IN IF Len(sorted) < 2
     THEN Return(sendMessage(renderOverlaySummary(s, <<>>, 0), NoDuplicatesMsg),
                 "fewRows")
     ELSE [Enter(renderOverlaySummary(s, <<>>, 0), "embedding")
             EXCEPT !.items = ItemsOf(sorted),
                    !.embedCalls = @ + EmbedCalls(ItemsOf(sorted)),
                    !.pc = "embedGrid"]

\* runDuplicateDetectionFromRowsMap up to its await of findDuplicates
RunFromRowsMap(s0) ==
  LET sorted == SortAsc(buildRowsFromCells)
      s == Enter(s0, "extracting")
  IN IF Len(sorted) < 2
     THEN Return(sendMessage(renderOverlaySummary(s, <<>>, 0), NoDuplicatesMsg),
                 "fewRows")
     ELSE [Enter(s, "embedding")
             EXCEPT !.items = ItemsOf(sorted),
                    !.embedCalls = @ + EmbedCalls(ItemsOf(sorted)),
                    !.pc = "embedGrid"]

\* the same continuation returning early when the pair count did not change
RunAfterEmbedSkipSame(s0) ==
  LET s == Enter(s0, "comparing")
      pairs == findDuplicates(s.items, DUP_THRESHOLD).pairs
      rows == DuplicateRows(s.items, pairs)
      s1 == [s EXCEPT !.hl = ApplyHighlights(@, rows),
                      !.styled = ApplyHighlights({}, rows)]
      s2 == renderOverlaySummary(s1, pairs, Len(s.items))
      s3 == [s2 EXCEPT !.lastPairsCount = Len(pairs)]
  IN IF Len(pairs) = s.lastPairsCount /\ Len(pairs) > 0 THEN Return(s, "found")
     ELSE IF Len(pairs) = 0
     THEN Return(sendMessage(
            [renderOverlaySummary(s, <<>>, Len(s.items)) EXCEPT !.lastPairsCount = 0],
            NoDuplicatesMsg), "clean")
     ELSE Return(sendMessage(s3, DuplicatesFoundMsg(Len(pairs), rows)), "found")

\* runDuplicateDetectionFromRowsMap once findDuplicates has resolved
RunAfterEmbed(s0) ==
  LET s == Enter(s0, "comparing")
      pairs == findDuplicates(s.items, DUP_THRESHOLD).pairs
      rows == DuplicateRows(s.items, pairs)
      s1 == [s EXCEPT !.hl = ApplyHighlights(@, rows),
                      !.styled = ApplyHighlights({}, rows)]
      s2 == renderOverlaySummary(s1, pairs, Len(s.items))
      s3 == [s2 EXCEPT !.lastPairsCount = Len(pairs)]
  IN IF Len(pairs) = 0
     THEN Return(sendMessage(
            [renderOverlaySummary(s, <<>>, Len(s.items)) EXCEPT !.lastPairsCount = 0],
            NoDuplicatesMsg), "clean")
     ELSE Return(sendMessage(s3, DuplicatesFoundMsg(Len(pairs), rows)), "found")

\* the fallback branch treating a missing text like an empty result
FallbackNoError(s0) ==
  LET s == Enter(s0, "extracting") IN
  IF Len(fallbackText) = 0
  THEN Return(sendMessage(renderOverlaySummary(s, <<>>, 0), NoDuplicatesMsg),
              "noText")
  ELSE [Enter(s, "embedding")
          EXCEPT !.items = LinesOf(fallbackText),
                 !.embedCalls = @ + EmbedCalls(LinesOf(fallbackText)),
                 !.pc = "embedFallback"]

\* the fallback branch of analyzeSheetAndHighlight, up to its await
Fallback(s0) ==
  LET s == Enter(s0, "extracting") IN
  IF Len(fallbackText) = 0
  THEN Return(sendMessage(renderOverlaySummary(s, <<>>, 0),
                          DuplicateErrorMsg(NoCellsError)), "noText")
  ELSE [Enter(s, "embedding")
          EXCEPT !.items = LinesOf(fallbackText),
                 !.embedCalls = @ + EmbedCalls(LinesOf(fallbackText)),
                 !.pc = "embedFallback"]

FallbackAfterEmbed(s0) ==
  LET s == Enter(s0, "comparing")
      pairs == findDuplicates(s.items, DUP_THRESHOLD).pairs
      s1 == renderOverlaySummary(s, pairs, Len(s.items))
  IN IF Len(pairs) > 0
     THEN Return(sendMessage(s1, DuplicatesFoundMsg(Len(pairs), {})), "textFound")
     ELSE Return(sendMessage(s1, NoDuplicatesMsg), "textClean")

\* the loop taking its start time anew at every round
PollLoopRestartClock(s0) ==
  LET s == Enter(s0, "waiting") IN
  IF findGridCellsAcrossFrames THEN RunFromRowsMap(s)
  ELSE [s EXCEPT !.pc = "polling", !.elapsed = 0]

\* while (Date.now() - start < POLL_TIMEOUT_MS) { cells = find(); if found break; wait }
PollLoop(s0) ==
  LET s == Enter(s0, "waiting") IN
  IF s.elapsed < POLL_TIMEOUT_MS
  THEN IF findGridCellsAcrossFrames THEN RunFromRowsMap(s)
       ELSE [s EXCEPT !.pc = "polling"]
  ELSE Fallback(s)

\* catch (err) { sendMessage({action: "DUPLICATE_ERROR", error: String(err)}) }
Caught(s) == Return(sendMessage(s, DuplicateErrorMsg(EmbedError)), "failed")

\* history of undisturbed passes, kept for the idempotence property
Book(s, failed) ==
  IF s.pc = "idle"
  THEN /\ last' = IF tainted \/ failed THEN NoResult
                  ELSE [present |-> TRUE, overlay |-> s.overlay, hl |-> s.hl,
                        msgs |-> s.msgs]
       /\ cleanRuns' = IF tainted \/ failed THEN 0 ELSE Min(cleanRuns + 1, 2)
       /\ tainted' = FALSE
  ELSE UNCHANGED <<last, cleanRuns, tainted>>

\* the MutationObserver callback after a segment that began with t timers
\* pending, and setupLiveWatcher once the pass that initDuplicateDetector
\* awaits has returned
WatchFrom(s, t) ==
  /\ timers' = IF observer /\ visible /\ s.mutated THEN Min(t + 1, MaxTimers) ELSE t
  /\ observer' = (observer \/ s.pc = "idle")

Watch(s) == WatchFrom(s, timers)

DomFrame ==
  UNCHANGED <<variant, isSheet, grid, stray, fallbackText, visible, inFrame,
              triggers, reruns, other, apiVars, pureVars>>

\* analyzeSheetAndHighlight on a page that is not a sheet: returns at once
SkipNotSheet ==
  /\ variant = "dom" /\ pc = "idle" /\ ~isSheet
  /\ UNCHANGED vars

\* analyzeSheetAndHighlight from its start to its first await
StartPass ==
  /\ variant = "dom" /\ pc = "idle" /\ isSheet
  /\ LET s == PollLoop(clearPreviousHighlights(
                [Cur EXCEPT !.msgs = <<>>, !.embedCalls = 0, !.elapsed = 0,
                            !.items = <<>>, !.stages = <<>>, !.styled = {}]))
     IN Set(s) /\ Book(s, FALSE) /\ Watch(s)
  /\ DomFrame

\* the poll timer fires
PollTick ==
  /\ variant = "dom" /\ pc = "polling"
  /\ LET s == PollLoop([Cur EXCEPT !.elapsed = @ + POLL_INTERVAL_MS])
     IN Set(s) /\ Book(s, FALSE) /\ Watch(s)
  /\ DomFrame

EmbedResolvedGrid ==
  /\ variant = "dom" /\ pc = "embedGrid"
  /\ LET s == RunAfterEmbed(Cur) IN Set(s) /\ Book(s, FALSE) /\ Watch(s)
  /\ DomFrame

EmbedResolvedFallback ==
  /\ variant = "dom" /\ pc = "embedFallback"
  /\ LET s == FallbackAfterEmbed(Cur) IN Set(s) /\ Book(s, FALSE) /\ Watch(s)
  /\ DomFrame

\* initModel or the extractor call rejects
EmbedRejected ==
  /\ variant = "dom" /\ pc \in {"embedGrid", "embedFallback"}
  /\ LET s == Caught(Cur) IN Set(s) /\ Book(s, TRUE) /\ Watch(s)
  /\ DomFrame

\* the spreadsheet renders, removes or rewrites the cells of one row while a
\* pass is waiting (one such change per pass)
GridChange ==
  /\ variant = "dom"
  /\ pc \in {"polling", "embedGrid", "embedFallback"}
  /\ ~tainted
  /\ \E r \in 1..MaxRow, c \in Contents \cup {Absent} :
       /\ grid[r] # c
       /\ grid' = [grid EXCEPT ![r] = c]
       /\ hl' = IF c = Absent THEN hl \ {r} ELSE hl
  /\ last' = NoResult
  /\ cleanRuns' = 0
  /\ tainted' = TRUE
  /\ UNCHANGED <<variant, pc, msgs, embedCalls, isSheet, stray, fallbackText,
                 elapsed, items, overlay, overlays, lastPairsCount, outcome, stages,
                 watchVars, apiVars, pureVars>>

(* ---- dom build: the live watcher, the manual trigger, overlapping passes -- *)

\* no second pass is waiting
NoPass == [pc |-> "idle", msgs |-> <<>>, embedCalls |-> 0, elapsed |-> 0,
           items |-> <<>>, stages |-> <<>>, styled |-> {}]

\* the locals of a pass
Locals(s) == [pc |-> s.pc, msgs |-> s.msgs, embedCalls |-> s.embedCalls,
              elapsed |-> s.elapsed, items |-> s.items, stages |-> s.stages,
              styled |-> s.styled]

\* analyzeSheetAndHighlight called: its first segment; a pass that is waiting
\* at an await stays behind as `other`
Begin(t) ==
  /\ isSheet
  /\ pc = "idle" \/ other.pc = "idle"
  /\ LET s == PollLoop(clearPreviousHighlights(
                [Cur EXCEPT !.msgs = <<>>, !.embedCalls = 0, !.elapsed = 0,
                            !.items = <<>>, !.stages = <<>>, !.styled = {}]))
     IN Set(s) /\ Book(s, FALSE) /\ WatchFrom(s, t)
  /\ other' = IF pc = "idle" THEN other ELSE Locals(Cur)
  /\ UNCHANGED <<variant, isSheet, grid, stray, fallbackText, visible, inFrame,
                 apiVars, pureVars>>

\* chrome.runtime.onMessage: RUN_DUPLICATE_SCAN, with the watcher installed
ManualScan ==
  /\ variant = "dom" /\ observer /\ triggers < MaxTriggers
  /\ triggers' = triggers + 1
  /\ UNCHANGED reruns
  /\ Begin(timers)

\* a timer of the live watcher fires
TimerFires ==
  /\ variant = "dom" /\ timers > 0
  /\ UNCHANGED triggers
  /\ reruns' = (reruns + 1) % 2
  /\ Begin(timers - 1)

\* the pass that started later has returned: the one left waiting goes on
Resume ==
  /\ variant = "dom" /\ pc = "idle" /\ other.pc # "idle"
  /\ pc' = other.pc /\ msgs' = other.msgs /\ embedCalls' = other.embedCalls
  /\ elapsed' = other.elapsed /\ items' = other.items /\ stages' = other.stages
  /\ styled' = other.styled
  /\ other' = NoPass
  /\ UNCHANGED <<variant, isSheet, grid, stray, fallbackText, overlay, overlays, hl,
                 lastPairsCount, outcome, tainted, last, cleanRuns, visible, inFrame,
                 observer, timers, triggers, reruns, apiVars, pureVars>>

\* closeBtn.onclick: overlay.remove()
CloseOverlay ==
  /\ variant = "dom" /\ overlay.present
  /\ overlay' = NoOverlay
  /\ overlays' = overlays - 1
  /\ timers' = IF observer /\ visible THEN Min(timers + 1, MaxTimers) ELSE timers
  /\ UNCHANGED <<variant, pc, msgs, embedCalls, isSheet, grid, stray, fallbackText,
                 elapsed, items, hl, lastPairsCount, outcome, tainted, last,
                 cleanRuns, stages, styled, visible, inFrame, observer, triggers,
                 reruns,
                 other, apiVars, pureVars>>

(* ===== api build: frontend/extension/content/duplicateBugDetector.ts ==== *)

API_THRESHOLD == 86

StoreKinds == {"absent", "garbage", "object", "list"}
MkStore(kind, list) == [kind |-> kind, list |-> list]
Thrown == [ok |-> FALSE, value |-> MkStore("absent", <<>>)]
Returned(v) == [ok |-> TRUE, value |-> v]

InSeq(x, q) == \E k \in 1..Len(q) : q[k] = x

RECURSIVE Digits(_)
\* String(n) for a non-negative integer, as its sequence of digits
Digits(n) == IF n < 10 THEN <<n>> ELSE Append(Digits(n \div 10), n % 10)

RECURSIVE LexLE(_, _)
\* x <= y for strings of digits compared by code unit
LexLE(x, y) ==
  IF Len(x) = 0 THEN TRUE
  ELSE IF Len(y) = 0 THEN FALSE
  ELSE IF x[1] # y[1] THEN x[1] < y[1]
  ELSE LexLE(Tail(x), Tail(y))

\* [a, b].sort().join("-"): the default sort compares the elements as strings
IgnoreKey(a, b) == IF LexLE(Digits(a), Digits(b)) THEN <<a, b>> ELSE <<b, a>>

\* getIgnoredPairs: the stored value read back; ok = FALSE when getItem throws
getIgnoredPairs(st, access) ==
  IF access = "denied" THEN Thrown
  ELSE IF st.kind \in {"absent", "garbage"} THEN Returned(MkStore("list", <<>>))
  ELSE Returned(st)

\* addIgnoredPair joining the two ids without sorting them, larger first
addIgnoredPairUnsorted(st, access, idA, idB) ==
  LET key == <<idB, idA>>
      got == getIgnoredPairs(st, access)
  IN IF ~got.ok \/ got.value.kind # "list" THEN [ok |-> FALSE, value |-> st]
     ELSE IF InSeq(key, got.value.list) THEN Returned(st)
     ELSE IF access = "full" THEN [ok |-> FALSE, value |-> st]
     ELSE Returned(MkStore("list", Append(got.value.list, key)))

\* addIgnoredPair pushing the key whether or not the list holds it
addIgnoredPairNoCheck(st, access, idA, idB) ==
  LET key == IgnoreKey(idA, idB)
      got == getIgnoredPairs(st, access)
  IN IF ~got.ok \/ got.value.kind # "list" THEN [ok |-> FALSE, value |-> st]
     ELSE IF access = "full" THEN [ok |-> FALSE, value |-> st]
     ELSE Returned(MkStore("list", Append(got.value.list, key)))

\* addIgnoredPair: the store afterwards; ok = FALSE when the call rejects
addIgnoredPair(st, access, idA, idB) ==
  LET key == IgnoreKey(idA, idB)
      got == getIgnoredPairs(st, access)
  IN IF ~got.ok \/ got.value.kind # "list" THEN [ok |-> FALSE, value |-> st]
     ELSE IF InSeq(key, got.value.list) THEN Returned(st)
     ELSE IF access = "full" THEN [ok |-> FALSE, value |-> st]
     ELSE Returned(MkStore("list", Append(got.value.list, key)))

\* isIgnoredPair: value = list.includes(key); ok = FALSE when the call rejects
isIgnoredPair(st, access, idA, idB) ==
  LET key == IgnoreKey(idA, idB)
      got == getIgnoredPairs(st, access)
  IN IF ~got.ok \/ got.value.kind # "list" THEN [ok |-> FALSE, value |-> FALSE]
     ELSE Returned(InSeq(key, got.value.list))

RECURSIVE AddAll(_, _, _, _)
\* for (const p of pairs) await addIgnoredPair(p.i, p.j): stops at a rejection
AddAll(st, access, pairs, k) ==
  IF k > Len(pairs) THEN Returned(st)
  ELSE LET r == addIgnoredPair(st, access, pairs[k].i, pairs[k].j)
       IN IF r.ok THEN AddAll(r.value, access, pairs, k + 1) ELSE r

\* pairs.filter(p => !ignored.includes([p.i, p.j].sort().join("-")))
FilterIgnored(pairs, list) ==
  SelectSeq(pairs, LAMBDA p : ~InSeq(IgnoreKey(p.i, p.j), list))

\* itemsForEmbedding: id = i + 1 for the i-th data row
SheetItems(rows) == [k \in 1..(Len(rows) - 1) |-> [id |-> k, text |-> rows[k + 1]]]

\* uniqueRows of highlightDuplicates: startRowIndex p.i + 1 and p.j + 1
HighlightRows(pairs) == UNION {{p.i + 1, p.j + 1} : p \in Range(pairs)}

RECURSIVE UniqueRowsAsList(_, _, _)
\* the rows collected in a list instead of a Set
UniqueRowsAsList(pairs, k, acc) ==
  IF k > Len(pairs) THEN acc
  ELSE UniqueRowsAsList(pairs, k + 1, acc \o <<pairs[k].i + 1, pairs[k].j + 1>>)

RECURSIVE UniqueRows(_, _, _)
\* uniqueRows: a Set filled pair by pair, kept in insertion order
UniqueRows(pairs, k, acc) ==
  IF k > Len(pairs) THEN acc
  ELSE LET a == pairs[k].i + 1
           b == pairs[k].j + 1
           acc1 == IF InSeq(a, acc) THEN acc ELSE Append(acc, a)
           acc2 == IF InSeq(b, acc1) THEN acc1 ELSE Append(acc1, b)
       IN UniqueRows(pairs, k + 1, acc2)

\* one repeatCell request per row: the range [rowIndex, rowIndex + 1)
RepeatCell(rowIndex) == [startRowIndex |-> rowIndex, endRowIndex |-> rowIndex + 1]

\* requests = [...uniqueRows].map(rowIndex => ({repeatCell: ...}))
HighlightRequests(pairs) ==
  LET rows == UniqueRows(pairs, 1, <<>>)
  IN [k \in 1..Len(rows) |-> RepeatCell(rows[k])]

\* the rows a batch of requests gives the red background
FormattedRows(requests) ==
  UNION {{r \in 0..MaxSheetRows : rq.startRowIndex <= r /\ r < rq.endRowIndex}
           : rq \in Range(requests)}

NoFormat == [result |-> "none", requests |-> <<>>]
Format(result, requests) == [result |-> result, requests |-> requests]

\* the rows named in the overlay body: p.i + 2 and p.j + 2
OverlayRows(pairs) == UNION {{p.i + 2, p.j + 2} : p \in Range(pairs)}

\* clearHighlights(spreadsheetId, pairs): the formatting of the pairs' rows removed
clearHighlights(h, pairs) == h \ HighlightRows(pairs)

ApiFrame == UNCHANGED <<variant, isSheet, sheet, storeAccess, domVars, pureVars>>

\* catch (err) { console.error(...) }: nothing rendered, nothing sent
ApiCaught(how) ==
  /\ pc' = "idle"
  /\ outcome' = how
  /\ UNCHANGED <<msgs, overlay, overlays>>

\* renderOverlaySummary(filteredPairs, itemsForEmbedding.length) and return;
\* the new element is appended to body, none is looked for
ApiRender(pairs, n) ==
  /\ overlay' = MkOverlay(pairs, n)
  /\ overlays' = overlays + 1
  /\ pc' = "idle"
  /\ outcome' = "rendered"
  /\ UNCHANGED msgs

\* the page URL carries no spreadsheet id: logged, nothing else
ApiSkipNotSheet ==
  /\ variant = "api" /\ pc = "idle" /\ ~isSheet
  /\ UNCHANGED vars

\* the page (re)loads and initDuplicateDetector runs up to await getSheetData
PageLoad ==
  /\ variant = "api" /\ pc = "idle" /\ isSheet /\ hpc = "none"
  /\ pc' = "fetching"
  /\ msgs' = <<>> /\ embedCalls' = 0 /\ items' = <<>> /\ overlay' = NoOverlay
  /\ overlays' = 0
  /\ outcome' = "none"
  /\ found' = <<>> /\ filtered' = <<>>
  /\ fmt' = NoFormat
  /\ UNCHANGED <<store, filteredFresh, remoteHL, hpc, hq, dismissed>>
  /\ ApiFrame

\* the background worker injects the script into the same document again
\* (tabs.onUpdated with status complete): initDuplicateDetector runs up to
\* await getSheetData and the elements under body stay
Reinject ==
  /\ variant = "api" /\ pc = "idle" /\ isSheet /\ hpc = "none"
  /\ overlays < MaxOverlays
  /\ pc' = "fetching"
  /\ msgs' = <<>> /\ embedCalls' = 0 /\ items' = <<>>
  /\ outcome' = "none"
  /\ found' = <<>> /\ filtered' = <<>>
  /\ fmt' = NoFormat
  /\ UNCHANGED <<overlay, overlays, store, filteredFresh, remoteHL, hpc, hq, dismissed>>
  /\ ApiFrame

SheetDataResolved ==
  /\ variant = "api" /\ pc = "fetching"
  /\ IF Len(sheet) < 2
     THEN /\ pc' = "idle" /\ outcome' = "fewRows"
          /\ UNCHANGED <<items, embedCalls>>
     ELSE /\ pc' = "embedApi" /\ outcome' = "none"
          /\ items' = SheetItems(sheet)
          /\ embedCalls' = embedCalls + EmbedCalls(SheetItems(sheet))
  /\ UNCHANGED <<msgs, overlay, overlays, apiVars>>
  /\ UNCHANGED <<variant, isSheet, domVars, pureVars>>

\* the token is refused, the fetch fails or the body is not JSON
SheetDataRejected ==
  /\ variant = "api" /\ pc = "fetching"
  /\ ApiCaught("failed")
  /\ UNCHANGED <<items, embedCalls, store, found, filtered, filteredFresh,
                 remoteHL, hpc, hq, dismissed, fmt>>
  /\ ApiFrame

\* findDuplicates resolved: read the ignore list, filter, then highlight or render
ApiEmbedResolved ==
  /\ variant = "api" /\ pc = "embedApi"
  /\ LET pairs == findDuplicates(items, API_THRESHOLD).pairs
         got == getIgnoredPairs(store, storeAccess)
         bad == ~got.ok \/ (got.value.kind # "list" /\ Len(pairs) > 0)
         kept == IF bad \/ got.value.kind # "list" THEN <<>>
                 ELSE FilterIgnored(pairs, got.value.list)
     IN /\ found' = pairs
        /\ IF bad
           THEN ApiCaught("storeFailed") /\ UNCHANGED <<filtered, filteredFresh>>
           ELSE /\ filtered' = kept
                /\ filteredFresh' = TRUE
                /\ IF Len(kept) > 0
                   THEN /\ pc' = "highlighting" /\ UNCHANGED <<msgs, overlay, overlays, outcome>>
                   ELSE ApiRender(kept, Len(items))
  /\ UNCHANGED <<items, embedCalls, store, remoteHL, hpc, hq, dismissed, fmt>>
  /\ ApiFrame

ApiEmbedRejected ==
  /\ variant = "api" /\ pc = "embedApi"
  /\ ApiCaught("failed")
  /\ UNCHANGED <<items, embedCalls, apiVars>>
  /\ UNCHANGED <<variant, isSheet, domVars, pureVars>>

\* batchUpdate answered ok: the rows are formatted, then the overlay is rendered
HighlightOk ==
  /\ variant = "api" /\ pc = "highlighting"
  /\ LET requests == HighlightRequests(filtered)
     IN /\ fmt' = Format("ok", requests)
        /\ remoteHL' = remoteHL \cup FormattedRows(requests)
  /\ ApiRender(filtered, Len(items))
  /\ UNCHANGED <<items, embedCalls, store, found, filtered, filteredFresh,
                 hpc, hq, dismissed>>
  /\ ApiFrame

\* the token is refused (silent return) or batchUpdate answers not ok (warning)
HighlightNotApplied ==
  /\ variant = "api" /\ pc = "highlighting"
  /\ \/ fmt' = Format("tokenRefused", <<>>)
     \/ fmt' = Format("rejected", HighlightRequests(filtered))
  /\ ApiRender(filtered, Len(items))
  /\ UNCHANGED <<items, embedCalls, store, found, filtered, filteredFresh,
                 remoteHL, hpc, hq, dismissed>>
  /\ ApiFrame

\* a fetch rejects or the metadata has no sheets: highlightDuplicates rejects
HighlightThrows ==
  /\ variant = "api" /\ pc = "highlighting"
  /\ ApiCaught("highlightFailed")
  /\ fmt' = Format("lookupFailed", <<>>)
  /\ UNCHANGED <<items, embedCalls, store, found, filtered, filteredFresh,
                 remoteHL, hpc, hq, dismissed>>
  /\ ApiFrame

\* markNotDup.onclick up to await clearHighlights; a rejected addIgnoredPair
\* ends the handler there
ClickNotDup ==
  /\ variant = "api" /\ pc = "idle" /\ overlay.present /\ hpc = "none"
  /\ LET r == AddAll(store, storeAccess, overlay.pairs, 1)
     IN /\ store' = r.value
        /\ IF r.ok THEN hpc' = "clearing" /\ hq' = overlay.pairs
           ELSE UNCHANGED <<hpc, hq>>
  /\ UNCHANGED <<pc, msgs, embedCalls, items, overlay, overlays, outcome, found,
                 filtered, filteredFresh, remoteHL, dismissed, fmt>>
  /\ ApiFrame

\* clearHighlights settled: alert, overlay.remove()
ClearResolved ==
  /\ variant = "api" /\ hpc = "clearing"
  /\ remoteHL' = clearHighlights(remoteHL, hq)
  /\ overlay' = NoOverlay
  /\ overlays' = IF overlays > 0 THEN overlays - 1 ELSE 0
  /\ dismissed' = dismissed \cup Range(hq)
  /\ filteredFresh' = FALSE
  /\ hpc' = "none" /\ hq' = <<>>
  /\ outcome' = "closed"
  /\ UNCHANGED <<pc, msgs, embedCalls, items, store, found, filtered, fmt>>
  /\ ApiFrame

(* ------------- buildRowString of the dom build, on its own -------------- *)

PREFERRED == <<"title", "summary", "description", "steps", "repro", "reproduction">>

HeaderNames == {"", "id", "Bug Title"}
CellTexts == {"", "x", "y"}

\* one character of String.prototype.toLowerCase
LowerChar(c) ==
  CASE c = "B" -> "b"
    [] c = "T" -> "t"
    [] OTHER -> c

RECURSIVE toLowerCase(_)
toLowerCase(str) ==
  IF Len(str) = 0 THEN ""
  ELSE LowerChar(SubSeq(str, 1, 1)) \o toLowerCase(SubSeq(str, 2, Len(str)))

\* String.prototype.includes
includes(str, part) ==
  \E k \in 1..(Len(str) - Len(part) + 1) : SubSeq(str, k, k + Len(part) - 1) = part

\* headerLower[i] || "" (i counted from 1)
HeaderLowerAt(header, i) == IF i <= Len(header) THEN toLowerCase(header[i]) ELSE ""

\* preferred.some(p => h.includes(p))
IsPreferred(h) == \E k \in 1..Len(PREFERRED) : includes(h, PREFERRED[k])

RECURSIVE join(_, _)
\* Array.prototype.join
join(parts, sep) ==
  IF Len(parts) = 0 THEN ""
  ELSE IF Len(parts) = 1 THEN parts[1]
  ELSE parts[1] \o sep \o join(Tail(parts), sep)

\* picked.filter(Boolean): the empty strings are dropped
filterBoolean(parts) == SelectSeq(parts, LAMBDA t : t # "")

RECURSIVE PickPreferred(_, _, _)
\* for (i ...) if (preferred.some(...)) picked.push(cells[i] || "")
PickPreferred(header, cells, i) ==
  IF i > Len(cells) THEN <<>>
  ELSE (IF IsPreferred(HeaderLowerAt(header, i)) THEN <<cells[i]>> ELSE <<>>)
       \o PickPreferred(header, cells, i + 1)

\* cells.slice(0, 3)
FirstThree(cells) == SubSeq(cells, 1, Min(3, Len(cells)))

buildRowString(header, cells) ==
  LET preferred == PickPreferred(header, cells, 1)
      picked == IF Len(preferred) = 0 THEN FirstThree(cells) ELSE preferred
  IN join(filterBoolean(Append(picked, join(cells, " "))), " . ")

(* --------------- instant replay: the two action buffers ----------------- *)

\* what the clock may advance by between two steps: around the window of the
\* buffer where the buffer is followed, around the throttle where the
\* screenshots are
Steps(v) ==
  IF v = "capture" THEN {1000, SCREENSHOT_THROTTLE_MS} ELSE {1000, MAX_BUFFER_TIME}
EventTypes == {"click", "keypress"}

ActionEvent(type, timestamp) == [type |-> type, timestamp |-> timestamp]

\* list.filter((e) => t - e.timestamp < window)
Younger(list, t, window) ==
  LET keep(e) == t - e.timestamp < window IN SelectSeq(list, keep)

\* list.slice(-n)
SliceLast(list, n) ==
  IF Len(list) <= n THEN list ELSE SubSeq(list, Len(list) - n + 1, Len(list))

\* replayBuffer.ts: the events left after logAction(event) at time t
logAction(evs, event, t) == Younger(Append(evs, event), t, MAX_BUFFER_TIME)

\* replayBuffer.ts: getRecentActions() at time t
getRecentActions(evs, t) == Younger(evs, t, MAX_BUFFER_TIME)

\* replay listener: actions after pruneOld() at time t
pruneOld(acts, t) == Younger(acts, t, LISTENER_MAX_BUFFER_TIME)

Screenshot(shot, t) == [screenshot |-> shot, timestamp |-> t]
Read(op, shot, existing) == [op |-> op, shot |-> shot, existing |-> existing]

\* persistScreenshotIfAvailable, in the callback of the read: the list written
Appended(existing, shot, t) ==
  SliceLast(Append(existing, Screenshot(shot, t)), MAX_SCREENSHOTS)

\* screenshots an earlier page left in storage
OldScreenshots(n) == [k \in 1..n |-> Screenshot(0 - k, 0)]

(* ======================= initial states and specifications ============== *)

\* the page is in a background tab, the cells in the top document
WatchIdle ==
  /\ styled = {} /\ visible = FALSE /\ inFrame = FALSE /\ observer = FALSE
  /\ timers = 0 /\ triggers = 0 /\ reruns = 0 /\ other = NoPass

DomIdle ==
  /\ grid = [r \in 1..MaxRow |-> Absent] /\ stray = FALSE /\ fallbackText = <<>>
  /\ elapsed = 0 /\ hl = {} /\ lastPairsCount = 0
  /\ tainted = FALSE /\ last = NoResult /\ cleanRuns = 0 /\ stages = <<>>
  /\ WatchIdle

ApiIdle ==
  /\ sheet = <<>> /\ storeAccess = "ok" /\ store = MkStore("absent", <<>>)
  /\ found = <<>> /\ filtered = <<>> /\ filteredFresh = FALSE
  /\ remoteHL = {} /\ hpc = "none" /\ hq = <<>> /\ dismissed = {}
  /\ fmt = NoFormat

FDIdle == fdItems = <<>> /\ fdThreshold = DEFAULT_THRESHOLD
          /\ fdOut = [done |-> FALSE, pairs |-> <<>>]

RSIdle == rsHeader = <<>> /\ rsCells = <<>> /\ rsOut = [done |-> FALSE, text |-> ""]

NoCall == [op |-> "none", ok |-> TRUE, hit |-> FALSE]
CKIdle == ckOut = NoCall

NoReplay == [called |-> FALSE, at |-> 0, n |-> 0, list |-> <<>>]
NotLoading == [pending |-> FALSE, existing |-> <<>>]

RPIdle ==
  /\ now = StartTime /\ ticks = 0 /\ events = <<>> /\ actions = <<>>
  /\ logged = <<>> /\ replay = NoReplay /\ listening = FALSE
  /\ loading = NotLoading /\ recentActions = <<>>
  /\ lastScreenshotTime = 0 /\ sent = <<>> /\ inflight = {} /\ reads = {}
  /\ recentScreenshots = <<>> /\ written = <<>>

\* no addIgnoredPair call has been made
NoAdd == [pc |-> "ready", key |-> <<0, 0>>, got |-> Thrown, stale |-> FALSE]

Callers == {1, 2}

RaceIdle == calls = [c \in Callers |-> NoAdd]

Recorders == 1..MaxRecorders

\* the worker as loaded: lines 17-19
RecIdle ==
  /\ mediaRecorder = 0 /\ recState = [r \in Recorders |-> "none"]
  /\ activeStream = 0 /\ recordedChunks = <<>> /\ liveStreams = {}
  /\ made = 0 /\ pendingStarts = 0 /\ stopping = {}
  /\ isRecording = FALSE /\ recordedVideo = <<>> /\ recResponse = "none"

Requests == 1..MaxRequests

\* the worker as loaded: line 794
SelIdle ==
  /\ captureInProgress = FALSE /\ capPc = [k \in Requests |-> "none"]
  /\ capReqs = 0 /\ capSent = 0

ShotKeys == 1..MaxShots

\* the worker as loaded: line 196
DlIdle ==
  /\ FULL_IMAGE_CACHE = {} /\ shots = [k \in ShotKeys |-> "none"]
  /\ cleanups = {} /\ expired = {} /\ served = {} /\ dl = <<>>

SideIdle == RPIdle /\ RaceIdle /\ RecIdle /\ SelIdle /\ DlIdle

PureIdle == FDIdle /\ RSIdle /\ CKIdle /\ SideIdle

Started ==
  /\ pc = "idle" /\ msgs = <<>> /\ embedCalls = 0 /\ items = <<>>
  /\ overlay = NoOverlay /\ overlays = 0 /\ outcome = "none"

\* the content script of the dom build has just been injected
DomInit ==
  /\ variant = "dom" /\ Started
  /\ isSheet \in BOOLEAN
  /\ grid \in [1..MaxRow -> Contents \cup {Absent}]
  /\ stray \in BOOLEAN
  /\ fallbackText \in SeqsUpTo(LineTexts, MaxLines)
  /\ ~isSheet => (\A r \in 1..MaxRow : grid[r] = Absent) /\ ~stray /\ fallbackText = <<>>
  \* cells without a row index and the body text are only looked at when no
  \* cell carries a row index, so they vary only with an empty grid
  /\ stray => \A r \in 1..MaxRow : grid[r] = Absent
  /\ fallbackText # <<>> => (\A r \in 1..MaxRow : grid[r] = Absent) /\ ~stray
  /\ elapsed = 0 /\ hl = {} /\ lastPairsCount = 0
  /\ tainted = FALSE /\ last = NoResult /\ cleanRuns = 0 /\ stages = <<>>
  /\ WatchIdle
  /\ ApiIdle /\ PureIdle

\* the content script of the api build has just been injected
ApiInit ==
  /\ variant = "api" /\ Started
  /\ isSheet \in BOOLEAN
  /\ sheet \in SeqsUpTo(Contents, MaxSheetRows)
  /\ storeAccess \in {"ok", "denied", "full"}
  /\ store \in {MkStore(k, <<>>) : k \in StoreKinds} \cup {MkStore("list", <<IgnoreKey(0, 1)>>)}
  /\ ~isSheet => sheet = <<>> /\ storeAccess = "ok" /\ store = MkStore("absent", <<>>)
  /\ found = <<>> /\ filtered = <<>> /\ filteredFresh = FALSE
  /\ remoteHL = {} /\ hpc = "none" /\ hq = <<>> /\ dismissed = {}
  /\ fmt = NoFormat
  /\ DomIdle /\ PureIdle

Init == DomInit \/ ApiInit

Next ==
  \/ SkipNotSheet
  \/ StartPass
  \/ PollTick
  \/ EmbedResolvedGrid
  \/ EmbedResolvedFallback
  \/ EmbedRejected
  \/ GridChange
  \/ ApiSkipNotSheet
  \/ PageLoad
  \/ SheetDataResolved
  \/ SheetDataRejected
  \/ ApiEmbedResolved
  \/ ApiEmbedRejected
  \/ HighlightOk
  \/ HighlightNotApplied
  \/ HighlightThrows
  \/ ClickNotDup
  \/ ClearResolved

Spec == Init /\ [][Next]_vars

\* setTimeout(r, POLL_INTERVAL_MS) fires: a waiting poll loop is resumed
SpecLive == Spec /\ WF_vars(PollTick)

(* ---- the visible page: live watcher, manual trigger; repeated injection -- *)

\* the dom build in a visible tab, the cells in the top document or in a
\* same-origin sub-document
WatchInit ==
  /\ variant = "dom" /\ Started
  /\ isSheet = TRUE
  /\ grid \in [1..MaxRow -> WatchContents \cup {Absent}]
  /\ stray = FALSE
  /\ fallbackText \in SeqsUpTo(LineTexts, MaxLines)
  /\ fallbackText # <<>> => \A r \in 1..MaxRow : grid[r] = Absent
  /\ elapsed = 0 /\ hl = {} /\ lastPairsCount = 0
  /\ tainted = FALSE /\ last = NoResult /\ cleanRuns = 0 /\ stages = <<>>
  /\ styled = {} /\ visible = TRUE /\ observer = FALSE
  /\ inFrame \in BOOLEAN
  /\ inFrame => \E r \in 1..MaxRow : grid[r] # Absent
  /\ timers = 0 /\ triggers = 0 /\ reruns = 0 /\ other = NoPass
  /\ ApiIdle /\ PureIdle

\* initDuplicateDetector: the pass it awaits before setupLiveWatcher
InitDetector == ~observer /\ StartPass

WatchNext ==
  \/ InitDetector
  \/ PollTick
  \/ EmbedResolvedGrid
  \/ EmbedResolvedFallback
  \/ EmbedRejected
  \/ ManualScan
  \/ TimerFires
  \/ Resume
  \/ CloseOverlay

SpecWatch == WatchInit /\ [][WatchNext]_vars

\* timers fire and awaits settle.  The last two conjuncts are weak fairness of
\* EmbedResolvedGrid and EmbedResolvedFallback, which are enabled exactly when
\* pc is "embedGrid" and "embedFallback".
SpecWatchLive ==
  /\ SpecWatch
  /\ WF_vars(PollTick) /\ WF_vars(TimerFires) /\ WF_vars(Resume)
  /\ ([]<>(pc # "embedGrid") \/ []<><<EmbedResolvedGrid>>_vars)
  /\ ([]<>(pc # "embedFallback") \/ []<><<EmbedResolvedFallback>>_vars)

\* the api build in a document the script is injected into more than once
InjectNext ==
  \/ ApiSkipNotSheet
  \/ PageLoad
  \/ Reinject
  \/ SheetDataResolved
  \/ SheetDataRejected
  \/ ApiEmbedResolved
  \/ ApiEmbedRejected
  \/ HighlightOk
  \/ HighlightNotApplied
  \/ HighlightThrows
  \/ ClickNotDup
  \/ ClearResolved

SpecInject == ApiInit /\ [][InjectNext]_vars

(* ------------------- findDuplicates on its own ------------------------- *)

FDItems(texts) == [k \in 1..Len(texts) |-> [id |-> k, text |-> texts[k]]]

FDInit ==
  /\ variant = "fn" /\ Started /\ isSheet = FALSE
  /\ DomIdle /\ ApiIdle /\ RSIdle /\ CKIdle /\ SideIdle
  /\ fdItems \in {FDItems(t) : t \in SeqsUpTo(FDTexts, MaxItems)}
  /\ fdThreshold \in Thresholds
  /\ fdOut = [done |-> FALSE, pairs |-> <<>>]

\* one call findDuplicates(fdItems, fdThreshold)
FDCall ==
  /\ variant = "fn" /\ ~fdOut.done
  /\ fdOut' = [done |-> TRUE, pairs |-> findDuplicates(fdItems, fdThreshold).pairs]
  /\ UNCHANGED <<variant, pc, msgs, embedCalls, isSheet, items, overlay, overlays,
              outcome,
                 domVars, apiVars, fdItems, fdThreshold, rsVars, ckOut, sideVars>>

FDNext == FDCall

SpecFD == FDInit /\ [][FDNext]_vars

(* ------------------- buildRowString on its own -------------------------- *)

RSInit ==
  /\ variant = "row" /\ Started /\ isSheet = FALSE
  /\ DomIdle /\ ApiIdle /\ FDIdle /\ CKIdle /\ SideIdle
  /\ rsHeader \in [1..MaxCols -> HeaderNames]
  /\ rsCells \in UNION {[1..n -> CellTexts] : n \in 1..MaxCols}
  /\ rsOut = [done |-> FALSE, text |-> ""]

\* one call buildRowString(dr.cells) under the header rsHeader
RSCall ==
  /\ variant = "row" /\ ~rsOut.done
  /\ rsOut' = [done |-> TRUE, text |-> buildRowString(rsHeader, rsCells)]
  /\ UNCHANGED <<variant, pc, msgs, embedCalls, isSheet, items, overlay, overlays,
              outcome,
                 domVars, apiVars, fdVars, rsHeader, rsCells, ckOut, sideVars>>

RSNext == RSCall

SpecRS == RSInit /\ [][RSNext]_vars

(* ------------------- utils/cache.ts on its own --------------------------- *)

Ids == 8..MaxId

CacheFrame ==
  UNCHANGED <<variant, pc, msgs, embedCalls, isSheet, items, overlay, overlays,
              outcome,
              domVars, sheet, storeAccess, found, filtered, filteredFresh,
              remoteHL, hpc, hq, dismissed, fmt, fdVars, rsVars, sideVars>>

CacheInit ==
  /\ variant = "cache" /\ Started /\ isSheet = FALSE
  /\ DomIdle /\ PureIdle
  /\ sheet = <<>> /\ found = <<>> /\ filtered = <<>> /\ filteredFresh = FALSE
  /\ remoteHL = {} /\ hpc = "none" /\ hq = <<>> /\ dismissed = {} /\ fmt = NoFormat
  /\ storeAccess \in {"ok", "denied", "full"}
  /\ store \in {MkStore(k, <<>>) : k \in StoreKinds}

\* await addIgnoredPair(idA, idB)
CacheAdd ==
  /\ variant = "cache"
  /\ \E a \in Ids, b \in Ids :
       LET r == addIgnoredPair(store, storeAccess, a, b)
           had == isIgnoredPair(store, storeAccess, a, b)
       IN /\ Len(r.value.list) <= MaxKeys
          /\ store' = r.value
          /\ ckOut' = [op |-> "add", ok |-> r.ok, hit |-> had.ok /\ had.value]
  /\ CacheFrame

\* await getIgnoredPairs()
CacheGet ==
  /\ variant = "cache"
  /\ ckOut' = [op |-> "get", ok |-> getIgnoredPairs(store, storeAccess).ok,
               hit |-> FALSE]
  /\ UNCHANGED store
  /\ CacheFrame

\* await isIgnoredPair(idA, idB)
CacheIsIgnored ==
  /\ variant = "cache"
  /\ \E a \in Ids, b \in Ids :
       LET r == isIgnoredPair(store, storeAccess, a, b)
       IN ckOut' = [op |-> "is", ok |-> r.ok, hit |-> r.value]
  /\ UNCHANGED store
  /\ CacheFrame

CacheNext == CacheAdd \/ CacheGet \/ CacheIsIgnored

SpecCache == CacheInit /\ [][CacheNext]_vars

(* ------------- utils/cache.ts: two addIgnoredPair calls ------------------ *)

\* addIgnoredPair is cut at its await: getIgnoredPairs has read the stored
\* list when the call is made, list.includes / push / setItem run when the
\* caller is resumed.  The two callers stand for two calls made without
\* awaiting the first, or for two tabs of the same origin.

RaceFrame ==
  UNCHANGED <<variant, pc, msgs, embedCalls, isSheet, items, overlay, overlays,
              outcome,
              domVars, sheet, storeAccess, found, filtered, filteredFresh,
              remoteHL, hpc, hq, dismissed, fmt, fdVars, rsVars, ckOut, rpVars,
              recVars, selVars, dlVars>>

RaceInit ==
  /\ variant = "race" /\ Started /\ isSheet = FALSE
  /\ DomIdle /\ PureIdle
  /\ sheet = <<>> /\ found = <<>> /\ filtered = <<>> /\ filteredFresh = FALSE
  /\ remoteHL = {} /\ hpc = "none" /\ hq = <<>> /\ dismissed = {} /\ fmt = NoFormat
  /\ storeAccess \in {"ok", "denied", "full"}
  /\ store \in {MkStore(k, <<>>) : k \in StoreKinds}

\* addIgnoredPair(idA, idB) up to `await getIgnoredPairs()`
AddCalled(c) ==
  /\ variant = "race" /\ calls[c].pc = "ready"
  /\ \E a \in Ids, b \in Ids :
       LET got == getIgnoredPairs(store, storeAccess)
       IN calls' = [calls EXCEPT ![c] =
                      [pc |-> IF got.ok THEN "awaiting" ELSE "rejected",
                       key |-> IgnoreKey(a, b), got |-> got, stale |-> FALSE]]
  /\ UNCHANGED store
  /\ RaceFrame

\* addIgnoredPair resumed: if (!list.includes(key)) { push; setItem }
AddResumed(c) ==
  /\ variant = "race" /\ calls[c].pc = "awaiting"
  /\ LET list == calls[c].got.value
         key == calls[c].key
         end(p) == [calls EXCEPT ![c].pc = p, ![c].stale = (store # list)]
     IN IF list.kind # "list" THEN calls' = end("rejected") /\ UNCHANGED store
        ELSE IF InSeq(key, list.list) THEN calls' = end("resolved") /\ UNCHANGED store
        ELSE IF storeAccess = "full" THEN calls' = end("rejected") /\ UNCHANGED store
        ELSE /\ store' = MkStore("list", Append(list.list, key))
             /\ calls' = end("resolved")
  /\ RaceFrame

RaceNext == \E c \in Callers : AddCalled(c) \/ AddResumed(c)

SpecRace == RaceInit /\ [][RaceNext]_vars

(* ------------------ background worker: recording ------------------------- *)

CoreFrame ==
  UNCHANGED <<variant, pc, msgs, embedCalls, isSheet, items, overlay, overlays,
              outcome, domVars, apiVars, fdVars, rsVars, ckOut>>

RecFrame == CoreFrame /\ UNCHANGED <<rpVars, raceVars, selVars, dlVars>>

RecordingInit ==
  /\ variant = "recording" /\ Started /\ isSheet = FALSE
  /\ DomIdle /\ ApiIdle /\ PureIdle

\* mediaRecorder && mediaRecorder.state === "recording"
Recording == mediaRecorder # 0 /\ recState[mediaRecorder] = "recording"

\* START_RECORDING up to `await tryTabCapture()`
StartRecording ==
  /\ variant = "recording"
  /\ IF Recording
     THEN /\ recResponse' = "alreadyRecording"
          /\ UNCHANGED pendingStarts
     ELSE /\ pendingStarts < MaxStarts
          /\ pendingStarts' = pendingStarts + 1
          /\ UNCHANGED recResponse
  /\ UNCHANGED <<mediaRecorder, recState, activeStream, recordedChunks,
                 liveStreams, made, stopping, isRecording, recordedVideo>>
  /\ RecFrame

\* tryTabCapture() resolved with null: no tabCapture, or no stream
CaptureFailed ==
  /\ variant = "recording" /\ pendingStarts > 0
  /\ pendingStarts' = pendingStarts - 1
  /\ recResponse' = "requireRecorderWindow"
  /\ UNCHANGED <<mediaRecorder, recState, activeStream, recordedChunks,
                 liveStreams, made, stopping, isRecording, recordedVideo>>
  /\ RecFrame

\* START_RECORDING resumed with a stream; constructed = FALSE when
\* new MediaRecorder throws.  The recorder of stream k is recorder k.
startWithStream(constructed) ==
  LET k == made + 1
  IN /\ made' = k
     /\ liveStreams' = liveStreams \cup {k}
     /\ activeStream' = k
     /\ recordedChunks' = <<>>
     /\ IF constructed
        THEN /\ mediaRecorder' = k
             /\ recState' = [recState EXCEPT ![k] = "recording"]
             /\ isRecording' = TRUE
             /\ recResponse' = "started"
        ELSE /\ recResponse' = "failed"
             /\ UNCHANGED <<mediaRecorder, recState, isRecording>>

CaptureResolved ==
  /\ variant = "recording" /\ pendingStarts > 0 /\ made < MaxRecorders
  /\ pendingStarts' = pendingStarts - 1
  /\ \E constructed \in BOOLEAN : startWithStream(constructed)
  /\ UNCHANGED <<stopping, recordedVideo>>
  /\ RecFrame

\* mediaRecorder.ondataavailable with data of positive size; a recorder
\* that was stopped delivers its last chunk before its stop event
DataAvailable ==
  /\ variant = "recording" /\ Len(recordedChunks) < MaxChunks
  /\ \E r \in Recorders :
       /\ recState[r] = "recording" \/ r \in stopping
       /\ recordedChunks' = Append(recordedChunks, r)
  /\ UNCHANGED <<mediaRecorder, recState, activeStream, liveStreams, made,
                 pendingStarts, stopping, isRecording, recordedVideo, recResponse>>
  /\ RecFrame

StopRecording ==
  /\ variant = "recording"
  /\ IF Recording
     THEN /\ recState' = [recState EXCEPT ![mediaRecorder] = "inactive"]
          /\ stopping' = stopping \cup {mediaRecorder}
          /\ recResponse' = "stopped"
          /\ UNCHANGED isRecording
     ELSE /\ isRecording' = FALSE
          /\ recResponse' = "alreadyStopped"
          /\ UNCHANGED <<recState, stopping>>
  /\ UNCHANGED <<mediaRecorder, activeStream, recordedChunks, liveStreams, made,
                 pendingStarts, recordedVideo>>
  /\ RecFrame

\* mediaRecorder.onstop = finalizeRecording
finalizeRecording ==
  /\ recordedVideo' = IF Len(recordedChunks) > 0 THEN recordedChunks
                                                 ELSE recordedVideo
  /\ liveStreams' = liveStreams \ {activeStream}
  /\ recordedChunks' = <<>>
  /\ mediaRecorder' = 0
  /\ activeStream' = 0
  /\ isRecording' = FALSE

OnStop ==
  /\ variant = "recording"
  /\ \E r \in stopping : stopping' = stopping \ {r}
  /\ finalizeRecording
  /\ UNCHANGED <<recState, made, pendingStarts, recResponse>>
  /\ RecFrame

RecordingNext ==
  \/ StartRecording \/ CaptureFailed \/ CaptureResolved
  \/ DataAvailable \/ StopRecording \/ OnStop

SpecRecording == RecordingInit /\ [][RecordingNext]_vars

(* -------------- background worker: selective capture --------------------- *)

SelFrame == CoreFrame /\ UNCHANGED <<rpVars, raceVars, recVars, dlVars>>

SelectiveInit ==
  /\ variant = "selective" /\ Started /\ isSheet = FALSE
  /\ DomIdle /\ ApiIdle /\ PureIdle

\* the awaits of the handler in order: tabs.query, executeScript, the
\* 150 ms timer, captureVisibleTab, fetch, blob(), createImageBitmap,
\* convertToBlob; then the FileReader is reading
Awaits == <<"query", "repaint", "delay", "capture", "fetch", "blob", "bitmap",
            "encode", "reading">>

StageAfter(st) == Awaits[(CHOOSE n \in 1..Len(Awaits) : Awaits[n] = st) + 1]

Running(k) == InSeq(capPc[k], Awaits)

\* HIDE_OVERLAY_AND_CAPTURE up to `await chrome.tabs.query`
HideOverlayAndCapture ==
  /\ variant = "selective" /\ capReqs < MaxRequests
  /\ capReqs' = capReqs + 1
  /\ IF captureInProgress
     THEN /\ capPc' = [capPc EXCEPT ![capReqs + 1] = "skipped"]
          /\ UNCHANGED captureInProgress
     ELSE /\ captureInProgress' = TRUE
          /\ capPc' = [capPc EXCEPT ![capReqs + 1] = "query"]
  /\ UNCHANGED capSent
  /\ SelFrame

\* an await of the handler is fulfilled; thrown = TRUE when the code up to
\* the next await throws (no active tab, no OffscreenCanvas context)
AwaitResolved(k) ==
  /\ variant = "selective" /\ Running(k) /\ capPc[k] # "reading"
  /\ \E thrown \in BOOLEAN :
       /\ thrown => capPc[k] \in {"query", "bitmap"}
       /\ IF thrown
          THEN /\ capPc' = [capPc EXCEPT ![k] = "failed"]
               /\ captureInProgress' = FALSE
          ELSE /\ capPc' = [capPc EXCEPT ![k] = StageAfter(@)]
               /\ UNCHANGED captureInProgress
  /\ UNCHANGED <<capReqs, capSent>>
  /\ SelFrame

\* an await of the handler is rejected: the inner catch of the repaint
\* script goes on, the outer catch ends the handler
AwaitRejected(k) ==
  /\ variant = "selective" /\ Running(k)
  /\ capPc[k] \notin {"delay", "reading"}
  /\ IF capPc[k] = "repaint"
     THEN /\ capPc' = [capPc EXCEPT ![k] = "delay"]
          /\ UNCHANGED captureInProgress
     ELSE /\ capPc' = [capPc EXCEPT ![k] = "failed"]
          /\ captureInProgress' = FALSE
  /\ UNCHANGED <<capReqs, capSent>>
  /\ SelFrame

\* reader.onload
ReaderLoad(k) ==
  /\ variant = "selective" /\ capPc[k] = "reading"
  /\ capPc' = [capPc EXCEPT ![k] = "sent"]
  /\ capSent' = capSent + 1
  /\ captureInProgress' = FALSE
  /\ UNCHANGED capReqs
  /\ SelFrame

\* the read fails: the reader fires error and loadend, which have no handler
ReaderError(k) ==
  /\ variant = "selective" /\ capPc[k] = "reading"
  /\ capPc' = [capPc EXCEPT ![k] = "readError"]
  /\ UNCHANGED <<captureInProgress, capReqs, capSent>>
  /\ SelFrame

Settle(k) == AwaitResolved(k) \/ AwaitRejected(k) \/ ReaderLoad(k) \/ ReaderError(k)

SelectiveNext ==
  \/ HideOverlayAndCapture
  \/ \E k \in Requests : AwaitResolved(k)
  \/ \E k \in Requests : AwaitRejected(k)
  \/ \E k \in Requests : ReaderLoad(k)
  \/ \E k \in Requests : ReaderError(k)

SpecSelective == SelectiveInit /\ [][SelectiveNext]_vars

\* every promise the handler awaits settles and the reader ends its read
SpecSelectiveLive == SpecSelective /\ \A k \in Requests : WF_vars(Settle(k))

(* --------------- background worker: full screenshots --------------------- *)

DlFrame == CoreFrame /\ UNCHANGED <<rpVars, raceVars, recVars, selVars>>

DownloadInit ==
  /\ variant = "download" /\ Started /\ isSheet = FALSE
  /\ DomIdle /\ ApiIdle /\ PureIdle

\* TAKE_SCREENSHOT, callback of captureVisibleTab with a data URL: the key
\* is fresh (time and random suffix), the record is cached and its cleanup
\* scheduled before the preview is awaited
TakeScreenshot ==
  /\ variant = "download"
  /\ \E k \in ShotKeys :
       /\ shots[k] = "none" /\ \A j \in 1..(k - 1) : shots[j] # "none"
       /\ FULL_IMAGE_CACHE' = FULL_IMAGE_CACHE \cup {k}
       /\ cleanups' = cleanups \cup {k}
       /\ shots' = [shots EXCEPT ![k] = "preview"]
  /\ UNCHANGED <<expired, served, dl>>
  /\ DlFrame

\* TAKE_SCREENSHOT after the preview: sendResponse with fullKey, or with
\* the error of a rejected fetch
TakeAnswered ==
  /\ variant = "download"
  /\ \E k \in ShotKeys, r \in {"answered", "error"} :
       /\ shots[k] = "preview"
       /\ shots' = [shots EXCEPT ![k] = r]
  /\ UNCHANGED <<FULL_IMAGE_CACHE, cleanups, expired, served, dl>>
  /\ DlFrame

\* the timer of scheduleScreenshotCleanup fires
scheduleScreenshotCleanup ==
  /\ variant = "download"
  /\ \E k \in cleanups :
       /\ FULL_IMAGE_CACHE' = FULL_IMAGE_CACHE \ {k}
       /\ cleanups' = cleanups \ {k}
       /\ expired' = expired \cup {k}
  /\ UNCHANGED <<shots, served, dl>>
  /\ DlFrame

\* one request: its key, its answer ("pending" while chrome.downloads runs)
\* and whether the key had been served or cleaned up when it was answered
Answer(key, result) ==
  [key |-> key, result |-> result, late |-> key \in served \cup expired]

\* DOWNLOAD_FULL_SCREENSHOT up to the call of chrome.downloads.download;
\* thrown = TRUE when that call throws
DownloadFullScreenshot ==
  /\ variant = "download" /\ Len(dl) < MaxDownloads
  /\ \E key \in ShotKeys, thrown \in BOOLEAN :
       /\ thrown => key \in FULL_IMAGE_CACHE
       /\ dl' = Append(dl, IF key \notin FULL_IMAGE_CACHE THEN Answer(key, "missing")
                           ELSE IF thrown THEN Answer(key, "error")
                           ELSE [key |-> key, result |-> "pending", late |-> FALSE])
  /\ UNCHANGED <<FULL_IMAGE_CACHE, shots, cleanups, expired, served>>
  /\ DlFrame

\* callback of chrome.downloads.download
DownloadCallback ==
  /\ variant = "download"
  /\ \E r \in 1..Len(dl), ok \in BOOLEAN :
       /\ dl[r].result = "pending"
       /\ dl' = [dl EXCEPT ![r] = Answer(dl[r].key, IF ok THEN "success" ELSE "failed")]
       /\ served' = IF ok THEN served \cup {dl[r].key} ELSE served
       /\ FULL_IMAGE_CACHE' = FULL_IMAGE_CACHE \ {dl[r].key}
  /\ UNCHANGED <<shots, cleanups, expired>>
  /\ DlFrame

DownloadNext ==
  \/ TakeScreenshot \/ TakeAnswered \/ scheduleScreenshotCleanup
  \/ DownloadFullScreenshot \/ DownloadCallback

SpecDownload == DownloadInit /\ [][DownloadNext]_vars

(* ------------------------- instant replay ------------------------------- *)

\* The replay listener is followed in two runs of the page: in "listener" the
\* action buffer is asked for and the page is hidden and shown while the
\* CAPTURE_FRAME responses stay out; in "capture" the read of init() has
\* returned, the responses arrive and the screenshots are stored.
\* "buffer" is utils/replayBuffer.ts.
Listeners == {"listener", "capture"}
ReplayVariants == {"buffer", "listener"}

RPFrame ==
  UNCHANGED <<variant, pc, msgs, embedCalls, isSheet, items, overlay, overlays,
              outcome,
              domVars, apiVars, fdVars, rsVars, ckOut, raceVars, recVars,
              selVars, dlVars>>

ReplayStart(variants) ==
  /\ variant \in variants /\ Started /\ isSheet = FALSE
  /\ DomIdle /\ ApiIdle /\ FDIdle /\ RSIdle /\ CKIdle
  /\ RaceIdle /\ RecIdle /\ SelIdle /\ DlIdle
  /\ now = StartTime /\ ticks = 0 /\ events = <<>> /\ actions = <<>>
  /\ logged = <<>> /\ replay = NoReplay
  /\ recentActions = <<>>
  \* the listener has run init(): the read is out, the listeners are attached
  /\ listening = (variant \in Listeners)
  /\ loading = [pending |-> variant = "listener", existing |-> <<>>]
  /\ lastScreenshotTime = 0 /\ sent = <<>> /\ inflight = {} /\ reads = {}
  /\ recentScreenshots \in
       IF variant = "capture"
       THEN {<<>>, OldScreenshots(MAX_SCREENSHOTS - 1)} ELSE {<<>>}
  /\ written = <<>>

ReplayInit == ReplayStart(ReplayVariants)
CaptureInit == ReplayStart({"capture"})

\* time passes
Tick ==
  /\ variant \in {"buffer"} \cup Listeners /\ ticks < MaxTicks
  /\ \E d \in Steps(variant) : now' = now + d
  /\ ticks' = ticks + 1
  /\ UNCHANGED <<events, actions, logged, replay, listening, loading,
                 recentActions, lastScreenshotTime, sent, inflight, reads,
                 recentScreenshots, written>>
  /\ RPFrame

\* replayBuffer.ts: logAction(event); the caller stamps the event
LogAction ==
  /\ variant = "buffer" /\ Len(logged) < MaxEvents
  /\ \E type \in EventTypes, ts \in {now, now - MAX_BUFFER_TIME} :
       LET event == ActionEvent(type, ts)
       IN /\ events' = logAction(events, event, now)
          /\ logged' = Append(logged, event)
  /\ UNCHANGED <<now, ticks, actions, replay, listening, loading,
                 recentActions, lastScreenshotTime, sent, inflight, reads,
                 recentScreenshots, written>>
  /\ RPFrame

\* replayBuffer.ts: getRecentActions()
GetRecentActions ==
  /\ variant = "buffer"
  /\ replay' = [called |-> TRUE, at |-> now, n |-> Len(logged),
                list |-> getRecentActions(events, now)]
  /\ UNCHANGED <<now, ticks, events, actions, logged, listening, loading,
                 recentActions, lastScreenshotTime, sent, inflight, reads,
                 recentScreenshots, written>>
  /\ RPFrame

\* the throttle lets the request through and forgets to note when
maybeCaptureNoNote(lastTime, t) ==
  [lastScreenshotTime |-> lastTime, send |-> ~(t - lastTime < SCREENSHOT_THROTTLE_MS)]

\* maybeCapture up to its await: the throttle and the CAPTURE_FRAME message
maybeCapture(lastTime, t) ==
  IF t - lastTime < SCREENSHOT_THROTTLE_MS
  THEN [lastScreenshotTime |-> lastTime, send |-> FALSE]
  ELSE [lastScreenshotTime |-> t, send |-> TRUE]

\* handleClick / handleKeypress up to the await inside maybeCapture
UserEvent ==
  /\ variant \in Listeners /\ listening /\ Len(logged) < MaxEvents
  /\ \E type \in EventTypes :
       LET event == ActionEvent(type, now)
           pruned == pruneOld(Append(actions, event), now)
           cap == maybeCapture(lastScreenshotTime, now)
       IN /\ actions' = pruned
          /\ logged' = Append(logged, event)
          /\ recentActions' = pruned
          /\ lastScreenshotTime' = cap.lastScreenshotTime
          /\ sent' = IF cap.send THEN Append(sent, now) ELSE sent
          /\ inflight' = IF cap.send THEN inflight \cup {Len(sent) + 1} ELSE inflight
  /\ UNCHANGED <<now, ticks, events, replay, listening, loading, reads,
                 recentScreenshots, written>>
  /\ RPFrame

\* the response to CAPTURE_FRAME arrives: with a screenshot,
\* persistScreenshotIfAvailable reads the stored list; without, nothing more
CaptureFrameResponse ==
  /\ variant = "capture"
  /\ \E shot \in inflight, ok \in BOOLEAN :
       /\ inflight' = inflight \ {shot}
       /\ reads' = IF ok THEN reads \cup {Read("append", shot, recentScreenshots)}
                          ELSE reads
  /\ UNCHANGED <<now, ticks, events, actions, logged, replay, listening, loading,
                 recentActions, lastScreenshotTime, sent, recentScreenshots, written>>
  /\ RPFrame

\* beforeunload: the stored list is read to be trimmed
BeforeUnload ==
  /\ variant = "capture"
  /\ \A r \in reads : r.op # "trim"
  /\ reads' = reads \cup {Read("trim", 0, recentScreenshots)}
  /\ UNCHANGED <<now, ticks, events, actions, logged, replay, listening, loading,
                 recentActions, lastScreenshotTime, sent, inflight,
                 recentScreenshots, written>>
  /\ RPFrame

\* the callback of a read of recentScreenshots runs and its write is stored
StorageCallback ==
  /\ variant = "capture"
  /\ \E r \in reads :
       /\ reads' = reads \ {r}
       /\ IF r.op = "append"
          THEN /\ recentScreenshots' = Appended(r.existing, r.shot, now)
               /\ written' = Append(written, r.shot)
          ELSE /\ recentScreenshots' = SliceLast(r.existing, MAX_SCREENSHOTS)
               /\ UNCHANGED written
  /\ UNCHANGED <<now, ticks, events, actions, logged, replay, listening, loading,
                 recentActions, lastScreenshotTime, sent, inflight>>
  /\ RPFrame

\* GET_REPLAY_LOGS: pruneOld(), then the actions are sent back
GetReplayLogs ==
  /\ variant = "listener"
  /\ actions' = pruneOld(actions, now)
  /\ replay' = [called |-> TRUE, at |-> now, n |-> Len(logged),
                list |-> pruneOld(actions, now)]
  /\ UNCHANGED <<now, ticks, events, logged, listening, loading,
                 recentActions, lastScreenshotTime, sent, inflight, reads,
                 recentScreenshots, written>>
  /\ RPFrame

\* pagehide: removeListeners()
PageHide ==
  /\ variant = "listener" /\ listening
  /\ listening' = FALSE
  /\ UNCHANGED <<now, ticks, events, actions, logged, replay, loading,
                 recentActions, lastScreenshotTime, sent, inflight, reads,
                 recentScreenshots, written>>
  /\ RPFrame

\* pageshow: removeListeners(), init()
PageShow ==
  /\ variant = "listener" /\ ~listening /\ ~loading.pending
  /\ listening' = TRUE
  /\ loading' = [pending |-> TRUE, existing |-> recentActions]
  /\ UNCHANGED <<now, ticks, events, actions, logged, replay,
                 recentActions, lastScreenshotTime, sent, inflight, reads,
                 recentScreenshots, written>>
  /\ RPFrame

\* the callback of the read of init() runs
InitLoaded ==
  /\ variant = "listener" /\ loading.pending
  /\ actions' = Younger(loading.existing, now, LISTENER_MAX_BUFFER_TIME)
  /\ loading' = NotLoading
  /\ UNCHANGED <<now, ticks, events, logged, replay, listening,
                 recentActions, lastScreenshotTime, sent, inflight, reads,
                 recentScreenshots, written>>
  /\ RPFrame

ReplayNext ==
  \/ Tick
  \/ LogAction
  \/ GetRecentActions
  \/ UserEvent
  \/ GetReplayLogs
  \/ PageHide
  \/ PageShow
  \/ InitLoaded

SpecReplay == ReplayInit /\ [][ReplayNext]_vars

CaptureNext ==
  \/ Tick
  \/ UserEvent
  \/ CaptureFrameResponse
  \/ BeforeUnload
  \/ StorageCallback

SpecCapture == CaptureInit /\ [][CaptureNext]_vars

(* ============================== properties ============================== *)

PassEnded == pc = "idle" /\ outcome \notin {"none", "closed"}

\* a dom pass has ended that the grid did not change under and that did not fail
CleanDomPass == variant = "dom" /\ pc = "idle" /\ last.present

MessageKinds == {"DUPLICATES_FOUND", "NO_DUPLICATES", "DUPLICATE_ERROR"}

\* C1: a pass over fewer than 2 extractable rows ends with an empty pair list
\* and exactly the message NO_DUPLICATES, in either build.
C1_FewRowsNoDuplicates ==
  /\ (CleanDomPass /\ findGridCellsAcrossFrames /\ Cardinality(buildRowsFromCells) < 2)
       => (msgs = <<NoDuplicatesMsg>> /\ overlay.pairs = <<>>)
  /\ (variant = "api" /\ pc = "idle" /\ outcome = "fewRows")
       => (msgs = <<NoDuplicatesMsg>> /\ overlay.pairs = <<>>)

\* C2: findDuplicates returns exactly the pairs (i, j), i < j, whose score is
\* at least the threshold: nothing else, nothing missing, nothing twice.
C2_ExactPairs ==
  fdOut.done =>
    LET emb == embedTexts(TextsOf(fdItems))
        n == Len(fdItems)
        out == fdOut.pairs
        Hit(i, j) == ScoreAtLeast(cosineSimilarity(emb[i + 1], emb[j + 1]), fdThreshold)
    IN /\ \A k \in 1..Len(out) :
            /\ out[k].i \in 0..(n - 1) /\ out[k].j \in 0..(n - 1)
            /\ out[k].i < out[k].j
            /\ Hit(out[k].i, out[k].j)
       /\ \A i \in 0..(n - 1), j \in 0..(n - 1) :
            (i < j /\ Hit(i, j)) => \E k \in 1..Len(out) : out[k].i = i /\ out[k].j = j
       /\ \A k, l \in 1..Len(out) :
            (out[k].i = out[l].i /\ out[k].j = out[l].j) => k = l

C2_Witness ==
  /\ fdOut.done /\ Len(fdItems) = MaxItems
  /\ Len(fdOut.pairs) >= 1
  /\ Len(fdOut.pairs) < (MaxItems * (MaxItems - 1)) \div 2

\* C3: a pass that follows a pass on an unchanged grid leaves the same overlay
\* pairs, the same highlighted rows and the same message as the first one.
C3_Idempotent ==
  [][(variant = "dom" /\ last.present /\ last'.present) => last' = last]_vars

C3_Witness ==
  /\ CleanDomPass /\ cleanRuns = 2
  /\ Len(last.overlay.pairs) > 0

C5_RowsHighlighted ==
  (CleanDomPass /\ outcome = "found") => hl = DuplicateRows(items, overlay.pairs)

\* C6: the rows the overlay names for a pair, and the row Jump scrolls to, are
\* the ids of the pair's items.
C6_OverlayShowsIds ==
  (CleanDomPass /\ outcome = "found") =>
    \A p \in Range(overlay.pairs) :
      /\ DisplayedRows(p) = <<items[p.i + 1].id, items[p.j + 1].id>>
      /\ JumpTarget(p) = items[p.i + 1].id

\* C7: every pass that has ended emitted exactly one message, one of
\* DUPLICATES_FOUND, NO_DUPLICATES and DUPLICATE_ERROR.
C7_OneMessagePerPass ==
  PassEnded => (Len(msgs) = 1 /\ msgs[1].action \in MessageKinds)

\* C8: a pass in which a stage failed still ends with the overlay rendered.
C8_FailedPassRenders ==
  (variant = "dom" /\ pc = "idle" /\ outcome = "failed") => overlay.present

\* C9: with no grid cell until the polling timeout and no fallback text the pass
\* emits DUPLICATE_ERROR with its message, renders the summary with 0 rows and 0
\* pairs, and never calls the embedding.
C9_NoCellsNoText ==
  (CleanDomPass /\ ~findGridCellsAcrossFrames /\ Len(fallbackText) = 0) =>
    /\ msgs = <<DuplicateErrorMsg(NoCellsError)>>
    /\ overlay = MkOverlay(<<>>, 0)
    /\ embedCalls = 0
    /\ elapsed >= POLL_TIMEOUT_MS

C9_Witness ==
  /\ CleanDomPass /\ ~findGridCellsAcrossFrames /\ Len(fallbackText) = 0
  /\ outcome = "noText" /\ elapsed = POLL_TIMEOUT_MS

\* the stored value cannot be read as a list of keys
StoreBroken == storeAccess = "denied" \/ store.kind \in {"garbage", "object"}

\* C10: with a failing ignore-list store the pass completes as with an empty
\* ignore set: the overlay is rendered with every detected pair.
C10_StoreFailureDegrades ==
  (variant = "api" /\ pc = "idle" /\ StoreBroken
     /\ outcome \in {"rendered", "storeFailed"})
    => (overlay.present /\ overlay.pairs = found)

\* the remote formatting write of this pass failed at one of its steps
FormatFailed == fmt.result \in {"tokenRefused", "lookupFailed", "rejected"}

\* C11: when the remote formatting write fails (token refused, metadata lookup
\* failed, batch update rejected) the pass still renders the overlay with the
\* surviving pairs.
C11_FormatFailureContained ==
  (variant = "api" /\ pc = "idle" /\ FormatFailed /\ outcome # "closed")
    => (overlay.present /\ overlay.pairs = filtered)

\* no header cell of the row's columns contains a recognized column name
NoRecognizedColumn ==
  \A i \in 1..Len(rsCells) : ~IsPreferred(HeaderLowerAt(rsHeader, i))

\* C12: under a header without recognized column names the feature string is
\* the first three cells followed by the space-joined row, joined with " . ",
\* and is never empty.
C12_FallbackFeatureString ==
  (rsOut.done /\ NoRecognizedColumn) =>
    /\ rsOut.text = join(Append(FirstThree(rsCells), join(rsCells, " ")), " . ")
    /\ rsOut.text # ""

\* C13: every stored key has the numerically smaller id first, and for all ids
\* a, b addIgnoredPair(a, b) does what addIgnoredPair(b, a) does and
\* isIgnoredPair(a, b) answers what isIgnoredPair(b, a) answers.
C13_KeyAscendingSymmetric ==
  /\ store.kind = "list" =>
       \A k \in 1..Len(store.list) : store.list[k][1] <= store.list[k][2]
  /\ \A a \in Ids, b \in Ids :
       /\ addIgnoredPair(store, storeAccess, a, b) = addIgnoredPair(store, storeAccess, b, a)
       /\ isIgnoredPair(store, storeAccess, a, b) = isIgnoredPair(store, storeAccess, b, a)

NoDuplicateKey(list) ==
  \A k \in 1..Len(list), l \in 1..Len(list) : list[k] = list[l] => k = l

IsPrefix(q, r) == Len(q) <= Len(r) /\ SubSeq(r, 1, Len(q)) = q

\* C14: a call of the cache module never removes a key from the persisted list
\* and never leaves a key in it twice.
C14_ListOnlyGrows ==
  [][/\ store.kind = "list" => (store'.kind = "list" /\ IsPrefix(store.list, store'.list))
     /\ NoDuplicateKey(store'.list)]_vars

C14_Witness ==
  /\ variant = "cache" /\ store.kind = "list" /\ Len(store.list) >= 2
  /\ ckOut = [op |-> "add", ok |-> TRUE, hit |-> TRUE]

\* C15: a poll loop that waits stops waiting; while it waits less than the
\* timeout has elapsed; it leaves early only at a poll that finds cells, and at
\* the timeout the pass takes the fallback or the error path.
C15_PollingEnds ==
  /\ (pc = "polling") ~> (pc # "polling")
  /\ [](pc = "polling" => elapsed < POLL_TIMEOUT_MS)
  /\ [][(pc = "polling" /\ pc' # "polling") =>
          IF elapsed' < POLL_TIMEOUT_MS
          THEN findGridCellsAcrossFrames /\ (pc' = "embedGrid" \/ outcome' = "fewRows")
          ELSE /\ elapsed' = POLL_TIMEOUT_MS
               /\ (pc' = "embedFallback" \/ outcome' = "noText")]_vars

C15_Witness ==
  /\ variant = "dom" /\ elapsed = POLL_TIMEOUT_MS
  /\ pc = "embedFallback"

StageRank(st) ==
  CASE st = "waiting" -> 1
    [] st = "extracting" -> 2
    [] st = "embedding" -> 3
    [] st = "comparing" -> 4
    [] st = "rendering" -> 5

\* C16: the stages a pass enters are in the order waiting-for-grid, extracting,
\* embedding, comparing, rendering: none is entered again and rendering comes
\* after the comparison of the pass.
C16_StageOrder ==
  /\ \A k \in 1..Len(stages), l \in 1..Len(stages) :
       k < l => StageRank(stages[k]) < StageRank(stages[l])
  /\ (variant = "dom" /\ pc = "idle" /\ outcome \in {"found", "clean", "textFound", "textClean"})
       => stages[Len(stages)] = "rendering" /\ stages[Len(stages) - 1] = "comparing"

C16_Witness ==
  /\ variant = "dom" /\ pc = "idle" /\ outcome = "found"
  /\ stages = <<"waiting", "extracting", "embedding", "comparing", "rendering">>

C18_DistinctIds ==
  \A k \in 1..Len(items), l \in 1..Len(items) : items[k].id = items[l].id => k = l

C18_Witness ==
  /\ variant = "dom" /\ pc = "embedFallback"
  /\ Len(items) = MaxLines /\ Len(items) >= 2

\* the items of the pass were built from the grid as it is now
ItemsFromGrid ==
  /\ variant = "dom" /\ ~tainted
  /\ \/ pc = "embedGrid"
     \/ pc = "idle" /\ last.present /\ outcome \in {"found", "clean"}

\* C19: the lowest row index of the map is the header and is no item; every
\* other row of the map is exactly one item, with its text, and the items are
\* in ascending order of row index.
C19_HeaderAndItems ==
  ItemsFromGrid =>
    LET rows == buildRowsFromCells
        header == CHOOSE h \in rows : \A r \in rows : h <= r
    IN /\ \A k \in 1..Len(items) :
            /\ items[k].id \in rows \ {header}
            /\ items[k].text = grid[items[k].id]
       /\ \A r \in rows \ {header} :
            Cardinality({k \in 1..Len(items) : items[k].id = r}) = 1
       /\ \A k \in 1..Len(items), l \in 1..Len(items) :
            k < l => items[k].id < items[l].id

C19_Witness ==
  /\ ItemsFromGrid /\ pc = "embedGrid"
  /\ Cardinality(buildRowsFromCells) >= 3
  /\ 1 \notin buildRowsFromCells

\* the zero-based rows of the surviving pairs, header skipped
PairRows == UNION {{p.i + 1, p.j + 1} : p \in Range(filtered)}

\* C20: the batch highlightDuplicates posts holds one request per distinct row of
\* the pairs: its range starts at i + 1 or j + 1 of a pair and spans one row, no
\* row has two requests and no other row has one; these are the rows the
\* overlay names (one-based).
C20_OneRequestPerRow ==
  (variant = "api" /\ fmt.result \in {"ok", "rejected"}) =>
    LET rq == fmt.requests
    IN /\ \A k \in 1..Len(rq) :
            /\ rq[k].endRowIndex = rq[k].startRowIndex + 1
            /\ rq[k].startRowIndex \in PairRows
       /\ \A r \in PairRows : \E k \in 1..Len(rq) : rq[k].startRowIndex = r
       /\ \A k \in 1..Len(rq), l \in 1..Len(rq) :
            rq[k].startRowIndex = rq[l].startRowIndex => k = l
       /\ OverlayRows(filtered) = {rq[k].startRowIndex + 1 : k \in 1..Len(rq)}

C20_Witness ==
  /\ variant = "api" /\ fmt.result = "ok"
  /\ Len(filtered) >= 2
  /\ Len(fmt.requests) < 2 * Len(filtered)

\* the events of those handed over before the last request that were younger
\* than 30 seconds when it was made
Last30Seconds ==
  Younger(SubSeq(logged, 1, replay.n), replay.at, MAX_BUFFER_TIME)

\* C21: what getRecentActions (GET_REPLAY_LOGS in the listener) returns is exactly
\* the logged events stamped less than 30 seconds before the call, in logging
\* order.
C21_Last30Seconds ==
  (variant \in ReplayVariants /\ replay.called) =>
    replay.list = Last30Seconds

\* the screenshots in the stored list
StoredShots == {recentScreenshots[k].screenshot : k \in 1..Len(recentScreenshots)}

\* C28: the stored screenshot list never holds more than 30 entries, and a
\* screenshot whose write completed is in the list unless at least 30 later
\* writes completed after it.
C28_NoScreenshotLost ==
  variant = "capture" =>
    /\ Len(recentScreenshots) <= MAX_SCREENSHOTS
    /\ \A k \in 1..Len(written) :
         \/ written[k] \in StoredShots
         \/ Len(written) - k >= MAX_SCREENSHOTS

\* C29: two CAPTURE_FRAME requests of one page are never sent less than
\* 2000 ms apart.
C29_CaptureThrottled ==
  variant = "capture" =>
    \A k \in 1..(Len(sent) - 1) : sent[k + 1] - sent[k] >= SCREENSHOT_THROTTLE_MS

\* a second request went out right at the end of the throttle window while the
\* first was still unanswered
C29_Witness ==
  /\ variant = "capture" /\ Len(sent) = 2 /\ inflight = {1, 2}
  /\ sent[2] - sent[1] = SCREENSHOT_THROTTLE_MS

\* no pass is running or waiting and the live watcher has no re-run scheduled
Settled == pc = "idle" /\ other.pc = "idle" /\ timers = 0

\* C22: with the live watcher installed and the grid unchanged, the dom build
\* eventually becomes idle and stays idle: the overlay a pass removes and
\* appends schedules no further pass.
C22_WatcherSettles == (variant = "dom") => <>[]Settled

\* C24: the page never holds more than one summary overlay element, in either
\* build, also when passes are re-run or overlap.
C24_OneOverlay == overlays <= 1

\* the rows the last DUPLICATES_FOUND message of the pass reported
ReportedRows == msgs[Len(msgs)].rows

\* C25: when the cells of a pass came from a same-origin sub-document, the rows
\* reported in DUPLICATES_FOUND are exactly the rows whose cells the pass styled.
C25_FrameCellsStyled ==
  (variant = "dom" /\ inFrame /\ pc = "idle" /\ outcome = "found")
    => styled = ReportedRows

\* C23: when two addIgnoredPair calls with different pairs have both
\* completed, both keys are in the persisted list, whatever the order of
\* their reads and writes.
C23_NoKeyLost ==
  (/\ variant = "race"
   /\ \A c \in Callers : calls[c].pc = "resolved"
   /\ calls[1].key # calls[2].key)
  => \A c \in Callers : InSeq(calls[c].key, store.list)

\* the same for calls that found the store as they had read it
C23_NoKeyLostInTurn ==
  (/\ variant = "race"
   /\ \A c \in Callers : calls[c].pc = "resolved" /\ ~calls[c].stale
   /\ calls[1].key # calls[2].key)
  => \A c \in Callers : InSeq(calls[c].key, store.list)

\* C26: at most one recorder of the background worker is recording at any
\* time; a START_RECORDING resumed with its stream finds no recording
\* started in the meantime.
C26_OneRecording ==
  (variant = "recording")
  => Cardinality({r \in Recorders : recState[r] = "recording"}) <= 1

\* a START_RECORDING that arrives while a recording runs starts nothing
C26_GuardWhileRecording ==
  [][(variant = "recording" /\ Recording /\ StartRecording)
       => (pendingStarts' = pendingStarts /\ recResponse' = "alreadyRecording")]_vars

\* C27: captureInProgress, once set by HIDE_OVERLAY_AND_CAPTURE, eventually
\* returns to false, however the capture ends.
C27_GuardReleased ==
  (variant = "selective") => (captureInProgress ~> ~captureInProgress)

\* while a capture is in progress a second request starts none
C27_OneCapture ==
  (variant = "selective") => Cardinality({k \in Requests : Running(k)}) <= 1

\* the flag is down only when no handler is on its way
C27_FlagCoversCapture ==
  (variant = "selective" /\ ~captureInProgress) => \A k \in Requests : ~Running(k)

\* the flag is up only for a running handler or after a failed read
C27_StuckOnlyAfterReadError ==
  (variant = "selective" /\ captureInProgress)
  => \E k \in Requests : Running(k) \/ capPc[k] = "readError"

\* C30: a DOWNLOAD_FULL_SCREENSHOT answered after its key was served with
\* success, or after the cleanup of its key fired, is answered with
\* "Screenshot expired or missing", also when it was received before the
\* first download's callback ran.
C30_DownloadableOnce ==
  (variant = "download")
  => \A r \in 1..Len(dl) : dl[r].late => dl[r].result = "missing"

\* a request received after its key was served or cleaned up is refused
C30_RefusedOnArrival ==
  [][(variant = "download" /\ DownloadFullScreenshot)
       => LET q == dl'[Len(dl')]
          IN q.key \in served \cup expired => q.result = "missing"]_vars

====
